---------------------------- MODULE Spec2Model ----------------------------
(***************************************************************************)
(* A model of the suffix-sorting / BWT construction engine of nvbio:       *)
(*   - the single-string bwt() of sufsort_inl.h with its StringBWTHandler, *)
(*   - the string-set bwt()/large_bwt() escalation and                     *)
(*     LargeBWTSkeleton::enact of sufsort_inl.h.                           *)
(* The specifications of the module: SpecString (one run of the           *)
(* single-string bwt), SpecSet and SpecEnact (one call of the string-set   *)
(* bwt), SpecSink (a string-set output handler receiving process()         *)
(* calls), SpecSSA (a StringSSAHandler), SpecSort (the radix passes of     *)
(* suffix_sort), SpecParams (the capacities of enact), SpecQGroup          *)
(* (QGroupIndexDevice::build) and SpecTree (a SumTree).                    *)
(***************************************************************************)
EXTENDS Integers, Sequences, FiniteSets, TLC

(***************************************************************************)
(* Bounds of the model.                                                    *)
(***************************************************************************)
\* longest single text explored
MaxLen == 4
\* chunk of the dollar-removal shift; the code uses 32*1024*1024
\* (sufsort_inl.h:316), scaled down so that a shift takes several chunks
RemoveBlockSize == 2
\* most "hard" suffixes of one block whose full sorting the sorter delays
MaxHard == 2

(***************************************************************************)
(* Program constants.                                                      *)
(***************************************************************************)
\* the value string_bwt_functor uses for the dollar and thrust::find looks for
DOLLAR == 255
\* uint32(-1): written -1 here; as an unsigned value it is above every length
NULL_PRIMARY == -1

VARIABLES
    \* ---- single-string bwt() ----
    symbol_size,    \* SYMBOL_SIZE of the string type: 2, 4 or 8 bits
    string,         \* the text T, a sequence of symbols (string[i+1] = T[i])
    output,         \* the output stream: position -> cell, or Unwritten
    primary,        \* StringBWTHandler::primary
    n_output,       \* StringBWTHandler::n_output
    delayed,        \* slots output unresolved, to be overwritten later
    block_begin,    \* loop index of the shift-back loop
    oob_read,       \* a symbol outside [0,string_len) has been read
    ret,            \* the value bwt() returned (NoRet before it returns)
    spc,            \* position of the single-string run
    \* ---- string-set bwt() / large_bwt() ----
    string_set,     \* the strings of the set (string_set[k+1] = string k)
    host_memory,    \* BWTParams::host_memory
    device_memory,  \* BWTParams::device_memory
    bits,           \* BUCKETING_BITS of the attempt being run
    frame,          \* the local variables of LargeBWTSkeleton::enact
    status,         \* the LargeBWTStatus of the attempt
    sink,           \* the process() calls the output handler received
    attempts,       \* the attempts run so far: <<bits, how it ended>>
    error,          \* the error the call raised, NoError while none
    pc,             \* position of the string-set call
    \* ---- the string-set output handlers (sinks) ----
    handler_kind,   \* which BaseBWTHandler is in use
    handler,        \* its fields
    emitted,        \* history: every symbol passed to process(), in order
    \* ---- the sampled-suffix-array handler ----
    ssa_handler,    \* the fields of a StringSSAHandler and the job feeding it
    \* ---- suffix_sort( string_set ) ----
    sorter,         \* the local variables of suffix_sort
    \* ---- the capacities of LargeBWTSkeleton::enact ----
    bwt_params,     \* a BWTParams and the capacities computed from it
    \* ---- QGroupIndexDevice::build ----
    qgroup,         \* the vectors of the index and the threads building it
    \* ---- SumTree ----
    tree            \* the cells of a SumTree and the operations applied

stringVars == <<string, output, primary, n_output, delayed, block_begin,
                oob_read, ret, spc>>

setVars == <<string_set, host_memory, device_memory, bits, frame, status,
             sink, attempts, error, pc>>

sinkVars == <<handler_kind, handler, emitted>>

\* the variables of the remaining components
extVars == <<ssa_handler, sorter, bwt_params, qgroup, tree>>

vars == <<symbol_size, stringVars, setVars, sinkVars, extVars>>

(***************************************************************************)
(* Generic helpers.                                                        *)
(***************************************************************************)
Min(a, b) == IF a < b THEN a ELSE b
Max(a, b) == IF a > b THEN a ELSE b

RECURSIVE Pow2(_)
Pow2(n) == IF n = 0 THEN 1 ELSE 2 * Pow2(n - 1)

\* all sequences over S of length 0..n
SeqsUpTo(S, n) == UNION { [1..k -> S] : k \in 0..n }

(***************************************************************************)
(* Texts.  A text over a SYMBOL_SIZE-bit alphabet is explored over the     *)
(* two smallest symbols and the largest symbol of that alphabet.           *)
(***************************************************************************)
SampleSymbols(w) == {0, 1, Pow2(w) - 1}

Unwritten == [sym |-> -1, dollar |-> FALSE]
NoRet == NULL_PRIMARY - 1

string_len == Len(string)

(***************************************************************************)
(* Order of the suffixes of T$ ($ smaller than every symbol), and the      *)
(* sorted list of the suffixes 0..N-1 that blockwise_suffix_sort hands to  *)
(* the handler.                                                            *)
(***************************************************************************)
RECURSIVE SuffixLess(_, _, _)
SuffixLess(T, i, j) ==
    \* suffix i of T$ is strictly smaller than suffix j of T$ (0-based)
    IF i = j THEN FALSE
    ELSE IF i >= Len(T) THEN TRUE          \* suffix i is "$"
    ELSE IF j >= Len(T) THEN FALSE
    ELSE IF T[i + 1] # T[j + 1] THEN T[i + 1] < T[j + 1]
    ELSE SuffixLess(T, i + 1, j + 1)

\* number of suffixes p in S smaller than suffix i
RankIn(T, S, i) == Cardinality({ j \in S : SuffixLess(T, j, i) })

\* the suffixes 0..N-1 in lexicographic order (1-based sequence)
RECURSIVE SortedFrom(_, _, _)
SortedFrom(T, S, k) ==
    \* the suffixes of rank k-1, k, ... among the suffixes S
    IF k > Cardinality(S) THEN <<>>
    ELSE <<CHOOSE i \in S : RankIn(T, S, i) = k - 1>> \o SortedFrom(T, S, k + 1)

SortedSuffixes(T) == SortedFrom(T, 0..(Len(T) - 1), 1)

\* priv::string_bwt_functor: the BWT symbol of suffix p
string_bwt_functor(T, p) ==
    IF p = 0 THEN [sym |-> DOLLAR,   dollar |-> TRUE]
             ELSE [sym |-> T[p],     dollar |-> FALSE]

\* thrust::find( d_block_bwt.begin(), d_block_bwt.begin() + n, 255u ) - begin
FindDollar(blk) ==
    LET hits == { i \in 1..Len(blk) : blk[i].sym = DOLLAR }
    IN  IF hits = {} THEN Len(blk)
        ELSE (CHOOSE i \in hits : \A j \in hits : i <= j) - 1

(***************************************************************************)
(* Single-string bwt().                                                    *)
(***************************************************************************)
\* the other components are not running
IdleExt ==
    /\ ssa_handler = <<>>
    /\ sorter = <<>>
    /\ bwt_params = <<>>
    /\ qgroup = <<>>
    /\ tree = <<>>

IdleSink ==
    /\ handler_kind = "none"
    /\ handler = <<>>
    /\ emitted = <<>>

IdleSet ==
    /\ string_set = <<>>
    /\ host_memory = 0
    /\ device_memory = 0
    /\ bits = 0
    /\ frame = <<>>
    /\ status = <<>>
    /\ sink = <<>>
    /\ attempts = <<>>
    /\ error = <<>>
    /\ pc = "idle"

InitString ==
    /\ symbol_size \in {2, 4, 8}
    /\ string \in SeqsUpTo(SampleSymbols(symbol_size), MaxLen)
    /\ output = [i \in 0..Len(string) |-> Unwritten]
    /\ primary = NULL_PRIMARY
    /\ n_output = 0
    /\ delayed = {}
    /\ block_begin = 0
    /\ oob_read = FALSE
    /\ ret = NoRet
    /\ spc = "start"
    /\ IdleSet
    /\ IdleSink
    /\ IdleExt

\* "encode the first BWT symbol explicitly":
\*   priv::device_copy( 1u, string + string_len-1, output, index_type(0u) )
\* then the handler is constructed (primary = NULL_PRIMARY, n_output = 0).
EncodeFirst ==
    /\ spc = "start"
    /\ string_len >= 1
    /\ output' = [output EXCEPT ![0] = [sym |-> string[string_len], dollar |-> FALSE]]
    /\ spc' = "sort"
    /\ UNCHANGED <<symbol_size, string, primary, n_output, delayed, block_begin, oob_read, ret, setVars, sinkVars, extVars>>

\* The same copy on the empty string reads string[-1]: the read is outside
\* the text, so it yields any symbol value, or the process faults.
EncodeFirstEmpty ==
    /\ spc = "start"
    /\ string_len = 0
    /\ oob_read' = TRUE
    /\ \/ \E v \in SampleSymbols(symbol_size) :
             /\ output' = [output EXCEPT ![0] = [sym |-> v, dollar |-> FALSE]]
             /\ spc' = "sort"
       \/ /\ spc' = "fault"
          /\ UNCHANGED output
    /\ UNCHANGED <<symbol_size, string, primary, n_output, delayed, block_begin, ret, setVars, sinkVars, extVars>>

\* StringBWTHandler::process_batch on the next n sorted suffixes
ProcessBatchPrimary(found, blk_primary) ==
    IF found THEN n_output + blk_primary + 1 ELSE primary

process_batch(n, d_suffixes) ==
    LET d_block_bwt == [i \in 1..n |-> string_bwt_functor(string, d_suffixes[i])]
        block_primary == FindDollar(d_block_bwt)
    IN  /\ primary' = ProcessBatchPrimary(block_primary < n, block_primary)
        /\ output' = [p \in DOMAIN output |->
                        IF p >= n_output + 1 /\ p <= n_output + n
                        THEN d_block_bwt[p - n_output] ELSE output[p]]
        /\ n_output' = n_output + n

\* blockwise_suffix_sort delivers the sorted suffixes in batches of any sizes.
\* It may delay the full sorting of a few hard suffixes of the block: their
\* slots hold the hard suffixes in an order not yet final, and are
\* overwritten by a later process_scattered.
ProcessBatch ==
    /\ spc = "sort"
    /\ n_output < string_len
    /\ \E sa \in {SortedSuffixes(string)} :
           \E n \in 1..(string_len - n_output) :
           \E D \in { E \in SUBSET (n_output..(n_output + n - 1)) :
                          Cardinality(E) <= MaxHard } :
           \E f \in Permutations(D) :
              /\ LET d_suffixes == [i \in 1..n |->
                                      IF (n_output + i - 1) \in D
                                      THEN sa[f[n_output + i - 1] + 1]
                                      ELSE sa[n_output + i]]
                 IN  process_batch(n, d_suffixes)
              /\ delayed' = delayed \cup D
    /\ UNCHANGED <<symbol_size, string, block_begin, oob_read, ret, spc, setVars, sinkVars, extVars>>

\* the slots of a set in ascending order
RECURSIVE SlotList(_)
SlotList(D) ==
    IF D = {} THEN <<>>
    ELSE LET lo == CHOOSE a \in D : \A b \in D : a <= b
         IN  <<lo>> \o SlotList(D \ {lo})

ScatteredPrimary(found, d_slots, blk_primary) ==
    IF found THEN d_slots[blk_primary + 1] + 1 ELSE primary

\* StringBWTHandler::process_scattered
process_scattered(n, d_suffixes, d_slots) ==
    LET d_block_bwt == [i \in 1..n |-> string_bwt_functor(string, d_suffixes[i])]
        block_primary == FindDollar(d_block_bwt)
    IN  /\ primary' = ScatteredPrimary(block_primary < n, d_slots, block_primary)
        \* priv::device_scatter through offset_functor(1u)
        /\ output' = [p \in DOMAIN output |->
                        IF \E i \in 1..n : d_slots[i] + 1 = p
                        THEN d_block_bwt[CHOOSE i \in 1..n : d_slots[i] + 1 = p]
                        ELSE output[p]]

\* the sorter resolves the hard suffixes it delayed and overwrites their slots
ProcessScattered ==
    /\ spc = "sort"
    /\ delayed # {}
    /\ \E sa \in {SortedSuffixes(string)}, d_slots \in {SlotList(delayed)} :
          LET d_suffixes == [i \in 1..Len(d_slots) |-> sa[d_slots[i] + 1]]
          IN  process_scattered(Len(d_slots), d_suffixes, d_slots)
    /\ delayed' = {}
    /\ UNCHANGED <<symbol_size, string, n_output, block_begin, oob_read, ret, spc, setVars, sinkVars, extVars>>

\* unsigned comparison block_begin < string_len, NULL_PRIMARY being uint32(-1)
UnsignedLess(a, b) == IF a = NULL_PRIMARY THEN FALSE ELSE a < b

\* the sort has ended: enter the loop "shift back all symbols following the primary"
BeginShift ==
    /\ spc = "sort"
    /\ n_output = string_len
    /\ delayed = {}
    /\ block_begin' = primary
    /\ spc' = "shift"
    /\ UNCHANGED <<symbol_size, string, output, primary, n_output, delayed, oob_read, ret, setVars, sinkVars, extVars>>

\* a shift that copies the block back from where it is: nothing moves
MutShiftBlock ==
    /\ spc = "shift"
    /\ UnsignedLess(block_begin, string_len)
    /\ LET block_end == Min(block_begin + RemoveBlockSize, string_len)
           tmp == [i \in 0..(block_end - block_begin - 1) |-> output[block_begin + i]]
       IN  /\ output' = [p \in DOMAIN output |->
                           IF p >= block_begin /\ p < block_end
                           THEN tmp[p - block_begin] ELSE output[p]]
           /\ block_begin' = block_begin + RemoveBlockSize
    /\ UNCHANGED <<symbol_size, string, primary, n_output, delayed, oob_read, ret, spc, setVars, sinkVars, extVars>>

\* one iteration of the shift loop: copy output[block_begin+1 .. block_end]
\* to the temporary buffer, then write it at output[block_begin ..]
ShiftBlock ==
    /\ spc = "shift"
    /\ UnsignedLess(block_begin, string_len)
    /\ LET block_end == Min(block_begin + RemoveBlockSize, string_len)
           tmp == [i \in 0..(block_end - block_begin - 1) |-> output[block_begin + 1 + i]]
       IN  /\ output' = [p \in DOMAIN output |->
                           IF p >= block_begin /\ p < block_end
                           THEN tmp[p - block_begin] ELSE output[p]]
           /\ block_begin' = block_begin + RemoveBlockSize
    /\ UNCHANGED <<symbol_size, string, primary, n_output, delayed, oob_read, ret, spc, setVars, sinkVars, extVars>>

\* return bwt_handler.primary
ReturnPrimary ==
    /\ spc = "shift"
    /\ ~UnsignedLess(block_begin, string_len)
    /\ ret' = primary
    /\ spc' = "done"
    /\ UNCHANGED <<symbol_size, string, output, primary, n_output, delayed, block_begin, oob_read, setVars, sinkVars, extVars>>

\* cuda::find_primary: one plus the number of suffixes i in [1,string_len)
\* for which string_suffix_less( i, 0 ) holds
find_primary(T) ==
    Cardinality({ i \in 1..(Len(T) - 1) : SuffixLess(T, i, 0) }) + 1

NextString ==
    \/ EncodeFirst
    \/ EncodeFirstEmpty
    \/ ProcessBatch
    \/ ProcessScattered
    \/ BeginShift
    \/ ShiftBlock
    \/ ReturnPrimary

SpecString == InitString /\ [][NextString]_vars



(***************************************************************************)
(* String sets, their suffixes and buckets.                                *)
(***************************************************************************)
\* most strings in a set, and the longest run of equal symbols in a string
MaxStrings == 2
MaxRun == 8
\* copies of one short string in a set
MaxCopies == 6
\* strings per chunk: the code uses M = 128*1024 (sufsort_inl.h:532)
M == 1
\* the code uses optimal_block_size = 32*1024*1024 (sufsort_inl.h:718)
optimal_block_size == 5
\* HostBWTConfig / DeviceBWTConfig: DOLLAR_BITS = WORD_BITS <= 32 ? 4 : 5
DOLLAR_BITS == 4

DOLLAR_MASK == Pow2(DOLLAR_BITS) - 1

\* the bucketing widths bwt() and large_bwt() try, in order
Widths == <<16, 20, 24>>

\* host memory enact leaves to the bucket counters
HostReserve == 128 * 1024 * 1024

Run(k) == [i \in 1..k |-> 0]
\* the strings of a set: the longest runs, which fill the long-string buckets,
\* and three short strings
StringPool == { Run(k) : k \in (MaxRun - 3)..MaxRun } \cup { <<0>>, <<1>>, <<0, 1>> }
\* a set of MaxCopies equal one-symbol strings puts MaxCopies suffixes into one
\* short-string bucket
CopySets ==
    { [i \in 1..MaxCopies |-> <<1>>],
      [i \in 1..MaxCopies |-> IF i < MaxCopies THEN <<1>> ELSE <<0, 1>>] }
StringSets == UNION { [1..m -> StringPool] : m \in 0..MaxStrings } \cup CopySets

HostMemories == { HostReserve + 8 * c : c \in {6, 64} }
DeviceMemories == { 32 * c : c \in {4, 8} }

\* N = string_set.size()
N == Len(string_set)
n_chunks == (N + M - 1) \div M

NoError == [kind |-> "none"]
OKStatus == [code |-> "OK", bucket_size |-> 0, bucket_index |-> 0]

\* a suffix is (string id, offset); its text is what follows the offset
SuffixText(set, sf) == SubSeq(set[sf.sid + 1], sf.off + 1, Len(set[sf.sid + 1]))

RECURSIVE SeqLess(_, _)
SeqLess(a, b) ==
    \* a$ is lexicographically smaller than b$
    IF a = <<>> THEN b # <<>>
    ELSE IF b = <<>> THEN FALSE
    ELSE IF Head(a) # Head(b) THEN Head(a) < Head(b)
    ELSE SeqLess(Tail(a), Tail(b))

\* the non-empty suffixes of the strings [first, last), string by string
RECURSIVE ChunkSuffixes(_, _, _)
ChunkSuffixes(set, first, last) ==
    IF first >= last THEN <<>>
    ELSE [p \in 1..Len(set[first + 1]) |-> [sid |-> first, off |-> p - 1]]
         \o ChunkSuffixes(set, first + 1, last)

symbols_per_word(b) == (b - DOLLAR_BITS) \div symbol_size

\* weight of the j-th symbol (j >= 1) of a b-bit radix
RECURSIVE RadixOf(_, _, _, _)
RadixOf(txt, b, j, spw) ==
    IF j > spw THEN 0
    ELSE (IF j <= Len(txt) THEN txt[j] ELSE 0) * Pow2(b - symbol_size * j)
         + RadixOf(txt, b, j + 1, spw)

\* the bucket of a suffix: its leading symbols in the high bits, the distance
\* to its dollar (all ones when beyond the radix) in the low DOLLAR_BITS
BucketOf(set, b, sf) ==
    LET txt == SuffixText(set, sf)
        spw == symbols_per_word(b)
    IN  RadixOf(txt, b, 1, spw)
        + (IF Len(txt) <= spw THEN Len(txt) ELSE DOLLAR_MASK)

\* the buckets that hold at least one suffix of the set; every other bucket
\* of the 2^b stays empty throughout
BucketsOf(set, b) ==
    LET all == ChunkSuffixes(set, 0, Len(set))
    IN  { BucketOf(set, b, all[i]) : i \in 1..Len(all) }

\* bucketer.count: the histogram of one chunk
RECURSIVE BucketList(_, _, _)
BucketList(set, b, cs) ==
    \* the buckets of a list of suffixes, suffix by suffix
    IF cs = <<>> THEN <<>>
    ELSE <<BucketOf(set, b, Head(cs))>> \o BucketList(set, b, Tail(cs))

ChunkHistogram(set, b, first, last) ==
    LET bk == BucketList(set, b, ChunkSuffixes(set, first, last))
    IN  [k \in BucketsOf(set, b) |->
            Cardinality({ i \in 1..Len(bk) : bk[i] = k })]

\* bucketer.collect: the suffixes of one chunk whose bucket is in [lo, hi)
\* a collecting pass that also returns the suffixes of bucket hi
MutInRange(set, b, lo, hi, sf) ==
    LET k == BucketOf(set, b, sf) IN k >= lo /\ k <= hi

InRange(set, b, lo, hi, sf) ==
    LET k == BucketOf(set, b, sf) IN k >= lo /\ k < hi

RECURSIVE Filter(_, _, _, _, _)
Filter(set, b, lo, hi, q) ==
    IF q = <<>> THEN <<>>
    ELSE (IF InRange(set, b, lo, hi, Head(q)) THEN <<Head(q)>> ELSE <<>>)
         \o Filter(set, b, lo, hi, Tail(q))

Collect(set, b, first, last, lo, hi) ==
    Filter(set, b, lo, hi, ChunkSuffixes(set, first, last))

\* string_sorter.sort: the suffixes q sorted by their text, equal texts
\* keeping their order in q
SortSuffixes(set, q) ==
    LET before(i, j) == \/ SeqLess(SuffixText(set, q[i]), SuffixText(set, q[j]))
                        \/ /\ SuffixText(set, q[i]) = SuffixText(set, q[j])
                           /\ i < j
        rank(j) == Cardinality({ i \in 1..Len(q) : before(i, j) })
    IN  [k \in 1..Len(q) |-> q[CHOOSE j \in 1..Len(q) : rank(j) = k - 1]]

\* string_set_handler.bwt: the symbol before a suffix, the dollar for a
\* whole string
SetBwtSymbol(set, sf) ==
    [sym |-> IF sf.off = 0 THEN DOLLAR ELSE set[sf.sid + 1][sf.off],
     sid |-> sf.sid, off |-> sf.off]

\* string_set_handler.dollar_bwt: the last symbol of the strings [first, last)
DollarBwt(set, first, last) ==
    [i \in 1..(last - first) |->
        [sym |-> set[first + i][Len(set[first + i])], sid |-> -1, off |-> -1]]

(***************************************************************************)
(* The bucket loops of LargeBWTSkeleton.  h_buckets is kept over the       *)
(* occupied buckets only; a loop over bucket indices passes the empty      *)
(* buckets between two occupied ones without any effect (they add 0 to     *)
(* every sum and never stop a "grow" loop).                                *)
(***************************************************************************)
BucketSize(hb, k) == IF k \in DOMAIN hb THEN hb[k] ELSE 0

\* (subbucket & DOLLAR_MASK) == DOLLAR_MASK: NOT a short-string bucket
IsLongStringBucket(k) == (k % (DOLLAR_MASK + 1)) = DOLLAR_MASK

\* the first occupied bucket in [from, limit), or limit
NextOccupied(hb, from, limit) ==
    LET occ == { k \in DOMAIN hb : k >= from /\ k < limit /\ hb[k] > 0 }
    IN  IF occ = {} THEN limit ELSE CHOOSE k \in occ : \A o \in occ : k <= o

\* for (size = 0; (end < limit) && (size + h_buckets[end] <= cap); ++end)
\*     size += h_buckets[end];
\* from the loop test with the given end and size
RECURSIVE GrowBlock(_, _, _, _, _)
GrowBlock(hb, end, limit, size, cap) ==
    LET nxt == NextOccupied(hb, end, limit)
    IN  IF nxt >= limit THEN [end |-> limit, size |-> size]
        ELSE IF size + hb[nxt] <= cap
             THEN GrowBlock(hb, nxt + 1, limit, size + hb[nxt], cap)
             ELSE [end |-> nxt, size |-> size]

\* "loop through the sub-buckets": the largest long-string bucket of
\* [first, last) if larger than acc, the first one of that size
TrackLargest(hb, first, last, acc) ==
    LET cand == { k \in DOMAIN hb : /\ k >= first /\ k < last
                                    /\ IsLongStringBucket(k)
                                    /\ hb[k] > acc.max_size }
    IN  IF cand = {} THEN acc
        ELSE LET top == CHOOSE k \in cand : \A o \in cand : hb[k] >= hb[o]
                 idx == CHOOSE k \in cand :
                           /\ hb[k] = hb[top]
                           /\ \A o \in cand : hb[o] = hb[top] => k <= o
             IN  [max_size |-> hb[top], max_index |-> idx]

\* LargeBWTSkeleton::max_subbucket_size from the super-block at bucket_begin
RECURSIVE MaxSubbucketScan(_, _, _, _, _)
MaxSubbucketScan(hb, nb, cap, first, acc) ==
    IF first >= nb
    THEN [throw |-> FALSE, bucket |-> 0,
          max_size |-> acc.max_size, max_index |-> acc.max_index]
    ELSE LET g == GrowBlock(hb, first, nb, 0, cap)
         IN  IF g.end = first
             THEN \* "bucket %u contains %u strings: buffer overflow!"
                  [throw |-> TRUE, bucket |-> first,
                   max_size |-> acc.max_size, max_index |-> acc.max_index]
             ELSE MaxSubbucketScan(hb, nb, cap, g.end,
                                   TrackLargest(hb, first, g.end, acc))

max_subbucket_size(hb, nb, cap) ==
    MaxSubbucketScan(hb, nb, cap, 0, [max_size |-> 0, max_index |-> 0])

\* if (max_size > limit) status = LargeBucket with that bucket's size and index
MutStatusAfter(r, limit) ==
    IF r.max_size >= limit
    THEN [code |-> "LargeBucket", bucket_size |-> r.max_size,
          bucket_index |-> r.max_index]
    ELSE OKStatus

StatusAfter(r, limit) ==
    IF r.max_size > limit
    THEN [code |-> "LargeBucket", bucket_size |-> r.max_size,
          bucket_index |-> r.max_index]
    ELSE OKStatus

\* the sub-block loop of LargeBWTSkeleton::build_subbuckets over the
\* super-block [first, last): TRUE when it throws
RECURSIVE SubbucketsThrow(_, _, _, _)
SubbucketsThrow(hb, first, last, mbs) ==
    IF first >= last THEN FALSE
    ELSE IF BucketSize(hb, first) > mbs
         THEN IF IsLongStringBucket(first) THEN TRUE
              ELSE SubbucketsThrow(hb, first + 1, last, mbs)
         ELSE SubbucketsThrow(hb, GrowBlock(hb, first, last, 0, mbs).end, last, mbs)

\* LargeBWTSkeleton::build_subbuckets: TRUE when it throws a runtime_error
RECURSIVE build_subbuckets_throws(_, _, _, _, _)
build_subbuckets_throws(hb, nb, cap, mbs, first) ==
    IF first >= nb THEN FALSE
    ELSE LET g == GrowBlock(hb, first, nb, 0, cap)
         IN  \/ g.end = first
             \/ SubbucketsThrow(hb, first, g.end, mbs)
             \/ build_subbuckets_throws(hb, nb, cap, mbs, g.end)

RECURSIVE SumOver(_, _)
SumOver(hb, S) ==
    IF S = {} THEN 0
    ELSE LET x == CHOOSE x \in S : TRUE IN hb[x] + SumOver(hb, S \ {x})

\* thrust::exclusive_scan of the bucket sizes
ExclusiveScan(hb) == [k \in DOMAIN hb |-> SumOver(hb, { o \in DOMAIN hb : o < k })]

(***************************************************************************)
(* LargeBWTSkeleton::enact, one action per loop iteration.                 *)
(***************************************************************************)
NoSuffix == [sid |-> -1, off |-> -1]

max_super_block_size == (host_memory - HostReserve) \div 8

\* h_buckets.size() = 1u << BUCKETING_BITS
n_buckets == Pow2(bits)

\* the locals of enact on entry
InitFrame ==
    [max_block_size |-> device_memory \div 32,
     block_begin |-> 0,
     chunk_id |-> 0,
     total_suffixes |-> 0,
     h_buckets |-> [k \in BucketsOf(string_set, bits) |-> 0],
     h_bucket_offsets |-> [k \in BucketsOf(string_set, bits) |-> 0],
     largest_subbucket |-> 0,
     bucket_begin |-> 0,
     bucket_end |-> 0,
     suffix_count |-> 0,
     string_count |-> 0,
     h_suffixes |-> [i \in 0..(max_super_block_size - 1) |-> NoSuffix],
     slot_out_of_range |-> FALSE,
     global_suffix_offset |-> 0,
     subbucket_begin |-> 0,
     subbucket_end |-> 0,
     \* history: the bucket ranges of the super-blocks walked so far
     super_blocks |-> <<>>]

IdleString ==
    /\ string = <<>>
    /\ output = [i \in 0..0 |-> Unwritten]
    /\ primary = NULL_PRIMARY
    /\ n_output = 0
    /\ delayed = {}
    /\ block_begin = 0
    /\ oob_read = FALSE
    /\ ret = NoRet
    /\ spc = "idle"

InitSet ==
    /\ symbol_size \in {4, 8}
    /\ string_set \in StringSets
    /\ host_memory \in HostMemories
    /\ device_memory \in DeviceMemories
    /\ bits = 0
    /\ frame = <<>>
    /\ status = OKStatus
    /\ sink = <<>>
    /\ attempts = <<>>
    /\ error = NoError
    /\ pc = "call"
    /\ IdleString
    /\ IdleSink
    /\ IdleExt

\* bwt() / large_bwt() enter the next enact<BUCKETING_BITS>
EnactBegin ==
    /\ pc = "call"
    /\ Len(attempts) < Len(Widths)
    /\ bits' = Widths[Len(attempts) + 1]
    /\ frame' = [InitFrame EXCEPT
                    !.h_buckets = [k \in BucketsOf(string_set, bits') |-> 0],
                    !.h_bucket_offsets = [k \in BucketsOf(string_set, bits') |-> 0]]
    /\ status' = OKStatus
    /\ pc' = "dollar"
    /\ UNCHANGED <<symbol_size, stringVars, sinkVars, extVars, string_set, host_memory,
                   device_memory, sink, attempts, error>>

\* output.process of one batch; a batch of no symbols leaves nothing behind.
\* indices tells whether the call carries the sorter's d_indices (a sorted
\* sub-block) or NULL in their place
Process(batch, indices) ==
    IF batch = <<>> THEN sink
    ELSE Append(sink, [i \in 1..Len(batch) |->
                          [sym |-> batch[i].sym, sid |-> batch[i].sid,
                           off |-> batch[i].off, indices |-> indices]])

\* "output the last character of each string", one block
MutDollarBlock ==
    /\ pc = "dollar"
    /\ frame.block_begin < N
    /\ LET block_size == frame.max_block_size \div 4
           block_end == Min(frame.block_begin + block_size, N)
       IN  /\ sink' = Process(DollarBwt(string_set, frame.block_begin, block_end), FALSE)
           /\ frame' = [frame EXCEPT !.block_begin = @ + block_size + 1]
    /\ UNCHANGED <<symbol_size, stringVars, sinkVars, extVars, string_set, host_memory,
                   device_memory, bits, status, attempts, error, pc>>

DollarBlock ==
    /\ pc = "dollar"
    /\ frame.block_begin < N
    /\ LET block_size == frame.max_block_size \div 4
           block_end == Min(frame.block_begin + block_size, N)
       IN  /\ sink' = Process(DollarBwt(string_set, frame.block_begin, block_end), FALSE)
           /\ frame' = [frame EXCEPT !.block_begin = @ + block_size]
    /\ UNCHANGED <<symbol_size, stringVars, sinkVars, extVars, string_set, host_memory,
                   device_memory, bits, status, attempts, error, pc>>

DollarDone ==
    /\ pc = "dollar"
    /\ frame.block_begin >= N
    /\ pc' = "count"
    /\ UNCHANGED <<symbol_size, stringVars, sinkVars, extVars, string_set, host_memory,
                   device_memory, bits, frame, status, sink, attempts, error>>

\* the counting pass over one chunk of M strings
MutCountChunk ==
    /\ pc = "count"
    /\ frame.chunk_id < n_chunks
    /\ LET chunk_begin == frame.chunk_id * M
           chunk_end == Min(chunk_begin + M, N)
           h == ChunkHistogram(string_set, bits, chunk_begin, chunk_end)
       IN  frame' = [frame EXCEPT
                        !.h_buckets = [k \in DOMAIN @ |-> Max(@[k], h[k])],
                        !.total_suffixes =
                            @ + Len(ChunkSuffixes(string_set, chunk_begin, chunk_end)),
                        !.chunk_id = @ + 1]
    /\ UNCHANGED <<symbol_size, stringVars, sinkVars, extVars, string_set, host_memory,
                   device_memory, bits, status, sink, attempts, error, pc>>

CountChunk ==
    /\ pc = "count"
    /\ frame.chunk_id < n_chunks
    /\ LET chunk_begin == frame.chunk_id * M
           chunk_end == Min(chunk_begin + M, N)
           h == ChunkHistogram(string_set, bits, chunk_begin, chunk_end)
       IN  frame' = [frame EXCEPT
                        !.h_buckets = [k \in DOMAIN @ |-> @[k] + h[k]],
                        !.total_suffixes =
                            @ + Len(ChunkSuffixes(string_set, chunk_begin, chunk_end)),
                        !.chunk_id = @ + 1]
    /\ UNCHANGED <<symbol_size, stringVars, sinkVars, extVars, string_set, host_memory,
                   device_memory, bits, status, sink, attempts, error, pc>>

\* if (largest_subbucket <= optimal_block_size) max_block_size = optimal_block_size
\* scratchpads one short of the largest sub-bucket
MutScratchpadSize(largest, mbs) ==
    IF largest <= optimal_block_size THEN largest - 1 ELSE mbs

ScratchpadSize(largest, mbs) ==
    IF largest <= optimal_block_size THEN optimal_block_size ELSE mbs

\* from the exclusive scan up to build_subbuckets
ScanBuckets ==
    /\ pc = "count"
    /\ frame.chunk_id >= n_chunks
    /\ LET hb == frame.h_buckets
           r == max_subbucket_size(hb, n_buckets, max_super_block_size)
           st == StatusAfter(r, frame.max_block_size)
           mbs == ScratchpadSize(r.max_size, frame.max_block_size)
       IN  IF r.throw
           THEN /\ error' = [kind |-> "runtime_error", bits |-> bits,
                             bucket_index |-> r.bucket,
                             bucket_size |-> BucketSize(hb, r.bucket)]
                /\ pc' = "error"
                /\ frame' = [frame EXCEPT !.h_bucket_offsets = ExclusiveScan(hb)]
                /\ UNCHANGED status
           ELSE IF st.code # "OK"
           THEN /\ status' = st
                /\ pc' = "return"
                /\ frame' = [frame EXCEPT !.h_bucket_offsets = ExclusiveScan(hb),
                                          !.largest_subbucket = r.max_size]
                /\ UNCHANGED error
           ELSE IF build_subbuckets_throws(hb, n_buckets, max_super_block_size, mbs, 0)
           THEN /\ error' = [kind |-> "runtime_error", bits |-> bits,
                             bucket_index |-> 0, bucket_size |-> 0]
                /\ pc' = "error"
                /\ frame' = [frame EXCEPT !.h_bucket_offsets = ExclusiveScan(hb),
                                          !.largest_subbucket = r.max_size,
                                          !.max_block_size = mbs]
                /\ UNCHANGED status
           ELSE /\ frame' = [frame EXCEPT !.h_bucket_offsets = ExclusiveScan(hb),
                                          !.largest_subbucket = r.max_size,
                                          !.max_block_size = mbs,
                                          !.bucket_begin = 0,
                                          !.bucket_end = 0,
                                          !.global_suffix_offset = 0]
                /\ pc' = "super"
                /\ UNCHANGED <<status, error>>
    /\ UNCHANGED <<symbol_size, stringVars, sinkVars, extVars, string_set, host_memory,
                   device_memory, bits, sink, attempts>>

\* the head of the super-block loop: grow the block of buckets
MutSuperBlock ==
    /\ pc = "super"
    /\ frame.bucket_begin < n_buckets
    /\ LET g == GrowBlock(frame.h_buckets, frame.bucket_end, n_buckets, 0,
                          max_super_block_size + 1)
       IN  frame' = [frame EXCEPT !.bucket_end = g.end,
                                  !.suffix_count = 0,
                                  !.string_count = 0,
                                  !.chunk_id = 0,
                                  !.super_blocks =
                                      Append(@, [lo |-> frame.bucket_begin, hi |-> g.end])]
    /\ pc' = "collect"
    /\ UNCHANGED <<symbol_size, stringVars, sinkVars, extVars, string_set, host_memory,
                   device_memory, bits, status, sink, attempts, error>>

SuperBlock ==
    /\ pc = "super"
    /\ frame.bucket_begin < n_buckets
    /\ LET g == GrowBlock(frame.h_buckets, frame.bucket_end, n_buckets, 0,
                          max_super_block_size)
       IN  frame' = [frame EXCEPT !.bucket_end = g.end,
                                  !.suffix_count = 0,
                                  !.string_count = 0,
                                  !.chunk_id = 0,
                                  !.super_blocks =
                                      Append(@, [lo |-> frame.bucket_begin, hi |-> g.end])]
    /\ pc' = "collect"
    /\ UNCHANGED <<symbol_size, stringVars, sinkVars, extVars, string_set, host_memory,
                   device_memory, bits, status, sink, attempts, error>>

\* "dispatch each suffix to their respective bucket"
RECURSIVE MutDispatch(_, _)
MutDispatch(q, f) ==
    IF q = <<>> THEN f
    ELSE LET bucket == BucketOf(string_set, bits, Head(q))
             slot == f.h_bucket_offsets[bucket]
             at == slot - f.global_suffix_offset
         IN  MutDispatch(Tail(q),
                 [f EXCEPT !.h_suffixes = IF at \in DOMAIN @
                                          THEN [@ EXCEPT ![at] = Head(q)] ELSE @,
                           !.slot_out_of_range = @ \/ at \notin DOMAIN f.h_suffixes])

RECURSIVE Dispatch(_, _)
Dispatch(q, f) ==
    IF q = <<>> THEN f
    ELSE LET bucket == BucketOf(string_set, bits, Head(q))
             slot == f.h_bucket_offsets[bucket]
             at == slot - f.global_suffix_offset
         IN  Dispatch(Tail(q),
                 [f EXCEPT !.h_bucket_offsets[bucket] = @ + 1,
                           !.h_suffixes = IF at \in DOMAIN @
                                          THEN [@ EXCEPT ![at] = Head(q)] ELSE @,
                           !.slot_out_of_range = @ \/ at \notin DOMAIN f.h_suffixes])

\* the collecting pass over one chunk
CollectChunk ==
    /\ pc = "collect"
    /\ frame.chunk_id < n_chunks
    /\ LET chunk_begin == frame.chunk_id * M
           chunk_end == Min(chunk_begin + M, N)
           q == Collect(string_set, bits, chunk_begin, chunk_end,
                        frame.bucket_begin, frame.bucket_end)
       IN  IF frame.suffix_count + Len(q) > max_super_block_size
           THEN \* "buffer size exceeded!": exit(1)
                /\ error' = [kind |-> "exit", bits |-> bits,
                             bucket_index |-> 0, bucket_size |-> 0]
                /\ pc' = "error"
                /\ UNCHANGED frame
           ELSE /\ frame' = [Dispatch(q, frame) EXCEPT
                                !.suffix_count = @ + Len(q),
                                !.string_count = @ + (chunk_end - chunk_begin),
                                !.chunk_id = @ + 1]
                /\ UNCHANGED <<error, pc>>
    /\ UNCHANGED <<symbol_size, stringVars, sinkVars, extVars, string_set, host_memory,
                   device_memory, bits, status, sink, attempts>>

CollectDone ==
    /\ pc = "collect"
    /\ frame.chunk_id >= n_chunks
    /\ frame' = [frame EXCEPT !.suffix_count = 0,
                              !.subbucket_begin = frame.bucket_begin,
                              !.subbucket_end = frame.bucket_begin]
    /\ pc' = "sub"
    /\ UNCHANGED <<symbol_size, stringVars, sinkVars, extVars, string_set, host_memory,
                   device_memory, bits, status, sink, attempts, error>>

\* h_suffixes[first .. first + n - 1]
HostSuffixes(first, n) == [i \in 1..n |-> frame.h_suffixes[first + i - 1]]

\* string_set_handler.bwt of a list of suffixes
BwtOf(q) == [i \in 1..Len(q) |-> SetBwtSymbol(string_set, q[i])]

\* a sub-block of buckets that fits the device: sort it and emit it
MutSubBlock ==
    /\ pc = "sub"
    /\ frame.subbucket_begin < frame.bucket_end
    /\ BucketSize(frame.h_buckets, frame.subbucket_begin) <= frame.max_block_size
    /\ LET g == GrowBlock(frame.h_buckets, frame.subbucket_end, frame.bucket_end,
                          0, frame.max_block_size)
       IN  /\ sink' = Process(BwtOf(SortSuffixes(string_set,
                                   HostSuffixes(frame.suffix_count, g.size))), TRUE)
           /\ frame' = [frame EXCEPT !.subbucket_end = g.end,
                                     !.subbucket_begin = g.end]
    /\ UNCHANGED <<symbol_size, stringVars, sinkVars, extVars, string_set, host_memory,
                   device_memory, bits, status, attempts, error, pc>>

SubBlock ==
    /\ pc = "sub"
    /\ frame.subbucket_begin < frame.bucket_end
    /\ BucketSize(frame.h_buckets, frame.subbucket_begin) <= frame.max_block_size
    /\ LET g == GrowBlock(frame.h_buckets, frame.subbucket_end, frame.bucket_end,
                          0, frame.max_block_size)
       IN  /\ sink' = Process(BwtOf(SortSuffixes(string_set,
                                   HostSuffixes(frame.suffix_count, g.size))), TRUE)
           /\ frame' = [frame EXCEPT !.subbucket_end = g.end,
                                     !.subbucket_begin = g.end,
                                     !.suffix_count = @ + g.size]
    /\ UNCHANGED <<symbol_size, stringVars, sinkVars, extVars, string_set, host_memory,
                   device_memory, bits, status, attempts, error, pc>>

\* a bucket larger than a block: a short-string bucket is emitted as it is
LargeSubBucket ==
    /\ pc = "sub"
    /\ frame.subbucket_begin < frame.bucket_end
    /\ BucketSize(frame.h_buckets, frame.subbucket_begin) > frame.max_block_size
    /\ IF IsLongStringBucket(frame.subbucket_begin)
       THEN \* "bucket %u contains %u strings: overflow!"
            /\ error' = [kind |-> "runtime_error", bits |-> bits,
                         bucket_index |-> frame.subbucket_begin,
                         bucket_size |-> frame.h_buckets[frame.subbucket_begin]]
            /\ pc' = "error"
            /\ UNCHANGED frame
       ELSE /\ frame' = [frame EXCEPT !.subbucket_end = @ + 1,
                                      !.block_begin = 0]
            /\ pc' = "direct"
            /\ UNCHANGED error
    /\ UNCHANGED <<symbol_size, stringVars, sinkVars, extVars, string_set, host_memory,
                   device_memory, bits, status, sink, attempts>>

\* "chop the bucket in multiple blocks", one block
MutDirectBlock ==
    /\ pc = "direct"
    /\ LET subbucket_size == frame.h_buckets[frame.subbucket_begin]
           block_end == Min(frame.block_begin + frame.max_block_size, subbucket_size)
       IN  /\ frame.block_begin < subbucket_size
           /\ sink' = Process(BwtOf(SortSuffixes(string_set,
                                   HostSuffixes(frame.suffix_count + frame.block_begin,
                                                block_end - frame.block_begin))),
                              TRUE)
           /\ frame' = [frame EXCEPT !.block_begin = @ + frame.max_block_size]
    /\ UNCHANGED <<symbol_size, stringVars, sinkVars, extVars, string_set, host_memory,
                   device_memory, bits, status, attempts, error, pc>>

DirectBlock ==
    /\ pc = "direct"
    /\ LET subbucket_size == frame.h_buckets[frame.subbucket_begin]
           block_end == Min(frame.block_begin + frame.max_block_size, subbucket_size)
       IN  /\ frame.block_begin < subbucket_size
           /\ sink' = Process(BwtOf(HostSuffixes(frame.suffix_count + frame.block_begin,
                                                 block_end - frame.block_begin)),
                              FALSE)
           /\ frame' = [frame EXCEPT !.block_begin = @ + frame.max_block_size]
    /\ UNCHANGED <<symbol_size, stringVars, sinkVars, extVars, string_set, host_memory,
                   device_memory, bits, status, attempts, error, pc>>

DirectDone ==
    /\ pc = "direct"
    /\ frame.block_begin >= frame.h_buckets[frame.subbucket_begin]
    /\ frame' = [frame EXCEPT !.suffix_count = @ + frame.h_buckets[frame.subbucket_begin],
                              !.subbucket_begin = frame.subbucket_end]
    /\ pc' = "sub"
    /\ UNCHANGED <<symbol_size, stringVars, sinkVars, extVars, string_set, host_memory,
                   device_memory, bits, status, sink, attempts, error>>

\* the tail of the super-block loop
SuperBlockDone ==
    /\ pc = "sub"
    /\ frame.subbucket_begin >= frame.bucket_end
    /\ frame' = [frame EXCEPT !.global_suffix_offset = @ + frame.suffix_count,
                              !.bucket_begin = frame.bucket_end]
    /\ pc' = "super"
    /\ UNCHANGED <<symbol_size, stringVars, sinkVars, extVars, string_set, host_memory,
                   device_memory, bits, status, sink, attempts, error>>

\* return status, at the end of enact
EnactReturn ==
    /\ pc = "super"
    /\ frame.bucket_begin >= n_buckets
    /\ pc' = "return"
    /\ UNCHANGED <<symbol_size, stringVars, sinkVars, extVars, string_set, host_memory,
                   device_memory, bits, frame, status, sink, attempts, error>>

(***************************************************************************)
(* bwt( string_set ) and large_bwt( string_set ): 16, then 20, then 24     *)
(* bits of bucketing.                                                      *)
(***************************************************************************)
Attempt == [bits |-> bits, status |-> status]

\* if (status = enact<...>(...)) return;
ReturnOK ==
    /\ pc = "return"
    /\ status.code = "OK"
    /\ attempts' = Append(attempts, Attempt)
    /\ pc' = "done"
    /\ UNCHANGED <<symbol_size, stringVars, sinkVars, extVars, string_set, host_memory,
                   device_memory, bits, frame, status, sink, error>>

\* the attempt failed and a wider bucketing is left to try
Escalate ==
    /\ pc = "return"
    /\ status.code # "OK"
    /\ Len(attempts) + 1 < Len(Widths)
    /\ attempts' = Append(attempts, Attempt)
    /\ pc' = "call"
    /\ UNCHANGED <<symbol_size, stringVars, sinkVars, extVars, string_set, host_memory,
                   device_memory, bits, frame, status, sink, error>>

\* if (status.code == LargeBucket) throw runtime_error( "subbucket %u ..." )
RaiseLargeBucket ==
    /\ pc = "return"
    /\ status.code = "LargeBucket"
    /\ Len(attempts) + 1 = Len(Widths)
    /\ attempts' = Append(attempts, Attempt)
    /\ error' = [kind |-> "LargeBucket", bits |-> bits,
                 bucket_index |-> status.bucket_index,
                 bucket_size |-> status.bucket_size]
    /\ pc' = "error"
    /\ UNCHANGED <<symbol_size, stringVars, sinkVars, extVars, string_set, host_memory,
                   device_memory, bits, frame, status, sink>>

NextSet ==
    \/ EnactBegin
    \/ DollarBlock
    \/ DollarDone
    \/ CountChunk
    \/ ScanBuckets
    \/ SuperBlock
    \/ CollectChunk
    \/ CollectDone
    \/ SubBlock
    \/ LargeSubBucket
    \/ DirectBlock
    \/ DirectDone
    \/ SuperBlockDone
    \/ EnactReturn
    \/ ReturnOK
    \/ Escalate
    \/ RaiseLargeBucket

SpecSet == InitSet /\ [][NextSet]_vars

\* enact under every BWTParams, those included whose device memory leaves the
\* per-string loop less than four symbols per block:
\* block_size = max_block_size / 4u with max_block_size = device_memory / 32
AnyDeviceMemories == DeviceMemories \cup { 32 * c : c \in {0, 2} }

InitEnact ==
    /\ symbol_size \in {4, 8}
    /\ string_set \in StringSets
    /\ host_memory \in HostMemories
    /\ device_memory \in AnyDeviceMemories
    /\ bits = 0
    /\ frame = <<>>
    /\ status = OKStatus
    /\ sink = <<>>
    /\ attempts = <<>>
    /\ error = NoError
    /\ pc = "call"
    /\ IdleString
    /\ IdleSink
    /\ IdleExt

SpecEnact == InitEnact /\ [][NextSet]_vars


(***************************************************************************)
(* The string-set output handlers of sufsort_bwt_utils: DeviceBWTHandler,  *)
(* the generic HostBWTHandler and the HostBWTHandler of a packed stream.   *)
(* One handler object receives a sequence of process() calls.              *)
(***************************************************************************)
\* most symbols in one process() call, and the room of the output stream
MaxBatch == 3
MaxTotal == 5
\* sizeof(word_type) of the packed stream, in bytes
SizeofWord == 1

WORD_SIZE == 8 * SizeofWord
SYMBOLS_PER_WORD == WORD_SIZE \div symbol_size

\* the symbols of the batches: none is zero, so that a written position
\* differs from a zeroed one
BatchSymbols == {1, Pow2(symbol_size) - 1}
Batches == SeqsUpTo(BatchSymbols, MaxBatch)

\* words of the packed stream; the stream has room for MaxTotal symbols and
\* two more words
StreamWords == 0..(MaxTotal \div SYMBOLS_PER_WORD + 2)

InitSink ==
    /\ symbol_size \in {2, 4, 8}
    /\ handler_kind \in {"device", "host", "packed"}
    /\ \/ /\ handler_kind = "device"
          /\ handler = [output |-> [p \in 0..(MaxTotal - 1) |-> -1], offset |-> 0]
       \/ /\ handler_kind = "host"
          /\ handler = [stream |-> [p \in 0..(MaxTotal - 1) |-> -1], output |-> 0]
       \/ /\ handler_kind = "packed"
          /\ \E be \in BOOLEAN :
                handler = [words |-> [i \in StreamWords |-> 0], offset |-> 0,
                           BIG_ENDIAN |-> be, oob_read |-> FALSE]
    /\ emitted = <<>>
    /\ IdleString
    /\ IdleSet
    /\ IdleExt

\* priv::device_copy( n, input, output, offset )
device_copy(n, input, out, offset) ==
    [p \in DOMAIN out |->
        IF p >= offset /\ p < offset + n THEN input[p - offset + 1] ELSE out[p]]

\* DeviceBWTHandler::process
DeviceProcess ==
    /\ handler_kind = "device"
    /\ \E d_bwt \in Batches :
          LET n_suffixes == Len(d_bwt)
          IN  /\ Len(emitted) + n_suffixes <= MaxTotal
              /\ handler' = [handler EXCEPT
                                !.output = device_copy(n_suffixes, d_bwt, @, handler.offset),
                                !.offset = @ + n_suffixes]
              /\ emitted' = emitted \o d_bwt
    /\ UNCHANGED <<symbol_size, stringVars, setVars, extVars, handler_kind>>

\* HostBWTHandler::process: output[i] = h_bwt[i]; output += n_suffixes
MutHostProcess ==
    /\ handler_kind = "host"
    /\ \E h_bwt \in Batches :
          LET n_suffixes == Len(h_bwt)
          IN  /\ Len(emitted) + n_suffixes <= MaxTotal
              /\ handler' = [handler EXCEPT
                                !.stream = [p \in DOMAIN @ |->
                                              IF p >= 0 /\ p < n_suffixes
                                              THEN h_bwt[p + 1] ELSE @[p]],
                                !.output = @ + n_suffixes]
              /\ emitted' = emitted \o h_bwt
    /\ UNCHANGED <<symbol_size, stringVars, setVars, extVars, handler_kind>>

HostProcess ==
    /\ handler_kind = "host"
    /\ \E h_bwt \in Batches :
          LET n_suffixes == Len(h_bwt)
          IN  /\ Len(emitted) + n_suffixes <= MaxTotal
              /\ handler' = [handler EXCEPT
                                !.stream = [p \in DOMAIN @ |->
                                              IF p >= handler.output /\ p < handler.output + n_suffixes
                                              THEN h_bwt[p - handler.output + 1] ELSE @[p]],
                                !.output = @ + n_suffixes]
              /\ emitted' = emitted \o h_bwt
    /\ UNCHANGED <<symbol_size, stringVars, setVars, extVars, handler_kind>>

RECURSIVE BitOr(_, _)
BitOr(a, b) ==
    IF a = 0 THEN b
    ELSE IF b = 0 THEN a
    ELSE (IF a % 2 = 1 \/ b % 2 = 1 THEN 1 ELSE 0) + 2 * BitOr(a \div 2, b \div 2)

\* symbol_offset = BIG_ENDIAN ? (WORD_SIZE - SYMBOL_SIZE - bit_idx) : bit_idx
SymbolOffset(be, bit_idx) == IF be THEN WORD_SIZE - symbol_size - bit_idx ELSE bit_idx

\* word |= word_type(symbol) << symbol_offset, for the symbol at in-word
\* position pos
SetBits(be, word, symbol, pos) ==
    BitOr(word, (symbol * Pow2(SymbolOffset(be, pos * symbol_size))) % Pow2(WORD_SIZE))

\* h_bwt[i]; a read beyond the batch yields the value junk
ReadBwt(h_bwt, i, junk) == IF i < Len(h_bwt) THEN h_bwt[i + 1] ELSE junk

\* the loop that fills the partially occupied word:
\* for (i = 0; i < word_rem; ++i) word |= h_bwt[i] << offset of (word_offset + i)
RECURSIVE FillWord(_, _, _, _, _, _, _)
FillWord(be, word, h_bwt, word_offset, i, word_rem, junk) ==
    IF i >= word_rem THEN word
    ELSE FillWord(be, SetBits(be, word, ReadBwt(h_bwt, i, junk), word_offset + i),
                  h_bwt, word_offset, i + 1, word_rem, junk)

\* "encode a word's worth of characters"
RECURSIVE EncodeWord(_, _, _, _, _, _)
EncodeWord(be, word, h_bwt, i, j, n_symbols) ==
    IF j >= n_symbols THEN word
    ELSE EncodeWord(be, SetBits(be, word, h_bwt[i + j + 1], j), h_bwt, i, j + 1, n_symbols)

\* for (i = word_rem; i < n_suffixes; i += SYMBOLS_PER_WORD) words[ ++word_idx ] = word
RECURSIVE WriteWords(_, _, _, _, _)
WriteWords(be, words, word_idx, h_bwt, i) ==
    IF i >= Len(h_bwt) THEN words
    ELSE LET n_symbols == Min(SYMBOLS_PER_WORD, Len(h_bwt) - i)
             word == EncodeWord(be, 0, h_bwt, i, 0, n_symbols)
         IN  WriteWords(be, [words EXCEPT ![word_idx + 1] = word], word_idx + 1,
                        h_bwt, i + SYMBOLS_PER_WORD)

\* HostBWTHandler< PackedStream<...> >::process
PackedProcess ==
    /\ handler_kind = "packed"
    /\ \E h_bwt \in Batches, junk \in {0, Pow2(symbol_size) - 1} :
          LET n_suffixes == Len(h_bwt)
              be == handler.BIG_ENDIAN
              word_offset == handler.offset % SYMBOLS_PER_WORD
              word_idx == handler.offset \div SYMBOLS_PER_WORD
              word_rem == IF word_offset # 0 THEN SYMBOLS_PER_WORD - word_offset ELSE 0
              first == FillWord(be, handler.words[word_idx], h_bwt, word_offset,
                                0, word_rem, junk)
              words1 == IF word_offset # 0
                        THEN [handler.words EXCEPT ![word_idx] = first]
                        ELSE handler.words
              word_idx1 == IF word_offset # 0 THEN word_idx + 1 ELSE word_idx
          IN  /\ Len(emitted) + n_suffixes <= MaxTotal
              /\ (word_rem <= n_suffixes) => junk = 0
              /\ handler' = [handler EXCEPT
                                !.words = WriteWords(be, words1, word_idx1, h_bwt, word_rem),
                                !.offset = @ + n_suffixes,
                                !.oob_read = @ \/ word_rem > n_suffixes]
              /\ emitted' = emitted \o h_bwt
    /\ UNCHANGED <<symbol_size, stringVars, setVars, extVars, handler_kind>>

NextSink == DeviceProcess \/ HostProcess \/ PackedProcess

SpecSink == InitSink /\ [][NextSink]_vars

(***************************************************************************)
(* StringSSAHandler: the handler that keeps a sampled suffix array.        *)
(***************************************************************************)
\* largest sampling interval explored
MaxMod == 4

\* an output cell no call has written
NotStored == NULL_PRIMARY - 1

RECURSIVE BitAnd(_, _)
BitAnd(a, b) ==
    IF a = 0 \/ b = 0 THEN 0
    ELSE (IF a % 2 = 1 /\ b % 2 = 1 THEN 1 ELSE 0) + 2 * BitAnd(a \div 2, b \div 2)

\* if ((slot & (mod-1)) == 0)
Sampled(slot, mod) == BitAnd(slot, mod - 1) = 0

\* the constructor: n_output( 1 ), output[0] = uint32(-1)
InitSSA ==
    /\ symbol_size = 2
    /\ \E T \in SeqsUpTo(SampleSymbols(symbol_size), MaxLen), m \in 1..MaxMod :
          ssa_handler = [string |-> T,
                         mod |-> m,
                         n_output |-> 1,
                         output |-> [k \in 0..(Len(T) \div m) |->
                                        IF k = 0 THEN NULL_PRIMARY ELSE NotStored],
                         stored |-> {0},
                         out_of_range |-> FALSE,
                         delayed |-> {}]
    /\ sorter = <<>>
    /\ bwt_params = <<>>
    /\ qgroup = <<>>
    /\ tree = <<>>
    /\ IdleString
    /\ IdleSet
    /\ IdleSink

\* the loops "copy_if" and "scatter_if": iteration i stores h_suffixes[i] at
\* output[slot[i] / mod] when slot[i] is sampled.  The iterations run in
\* parallel: a cell several iterations write keeps the value of any of them.
StoreSampled(h, n, h_suffixes, slot) ==
    LET writers(k) == { i \in 1..n : Sampled(slot[i], h.mod) /\ slot[i] \div h.mod = k }
        cells == { k \in DOMAIN h.output : writers(k) # {} }
    IN  { [h EXCEPT !.output = [k \in DOMAIN @ |->
                                   IF k \in cells THEN h_suffixes[w[k]] ELSE @[k]],
                    !.stored = @ \cup { slot[i] : i \in { j \in 1..n : Sampled(slot[j], h.mod) } },
                    !.out_of_range = @ \/ \E i \in 1..n :
                                             /\ Sampled(slot[i], h.mod)
                                             /\ slot[i] \div h.mod \notin DOMAIN h.output] :
          w \in { f \in [cells -> 1..n] : \A k \in cells : f[k] \in writers(k) } }

\* StringSSAHandler::process_batch
ssa_process_batch(h, n, d_suffixes) ==
    LET slot == [i \in 1..n |-> (i - 1) + h.n_output]
    IN  { [g EXCEPT !.n_output = @ + n] : g \in StoreSampled(h, n, d_suffixes, slot) }

\* StringSSAHandler::process_scattered
ssa_process_scattered(h, n, d_suffixes, d_slots) ==
    LET slot == [i \in 1..n |-> d_slots[i] + 1]
    IN  StoreSampled(h, n, d_suffixes, slot)

\* blockwise_suffix_sort hands over the next batch, a few hard suffixes of
\* which may be delayed (see ProcessBatch)
SSAProcessBatch ==
    /\ ssa_handler # <<>>
    /\ LET h == ssa_handler
           done == h.n_output - 1
       IN  /\ done < Len(h.string)
           /\ \E sa \in {SortedSuffixes(h.string)} :
              \E n \in 1..(Len(h.string) - done) :
              \E D \in { E \in SUBSET (done..(done + n - 1)) :
                             Cardinality(E) <= MaxHard } :
              \E f \in Permutations(D) :
                 LET d_suffixes == [i \in 1..n |->
                                      IF (done + i - 1) \in D
                                      THEN sa[f[done + i - 1] + 1]
                                      ELSE sa[done + i]]
                 IN  ssa_handler' \in
                        { [g EXCEPT !.delayed = @ \cup D] :
                            g \in ssa_process_batch(h, n, d_suffixes) }
    /\ UNCHANGED <<symbol_size, stringVars, setVars, sinkVars, sorter, bwt_params, qgroup, tree>>

\* the sorter resolves the delayed suffixes and overwrites their slots
SSAProcessScattered ==
    /\ ssa_handler # <<>>
    /\ ssa_handler.delayed # {}
    /\ \E sa \in {SortedSuffixes(ssa_handler.string)},
          d_slots \in {SlotList(ssa_handler.delayed)} :
          LET h == ssa_handler
              d_suffixes == [i \in 1..Len(d_slots) |-> sa[d_slots[i] + 1]]
          IN  ssa_handler' \in
                 { [g EXCEPT !.delayed = {}] :
                     g \in ssa_process_scattered(h, Len(d_slots), d_suffixes, d_slots) }
    /\ UNCHANGED <<symbol_size, stringVars, setVars, sinkVars, sorter, bwt_params, qgroup, tree>>

NextSSA == SSAProcessBatch \/ SSAProcessScattered

SpecSSA == InitSSA /\ [][NextSSA]_vars

(***************************************************************************)
(* suffix_sort( string_set ): the word-by-word radix sort of all the       *)
(* suffixes of a string set.                                               *)
(***************************************************************************)
\* most strings in a sorted set, and the longest of them
SortMaxStrings == 2
SortMaxLen == 3
\* the code uses WORD_BITS = 32 (sufsort_inl.h:74), scaled down so that a
\* suffix takes several radix words
SortWordBits == 6

SortSymbolsPerWord == (SortWordBits - DOLLAR_BITS) \div 2

SortSets == UNION { [1..k -> SeqsUpTo({0, 1}, SortMaxLen)] : k \in 0..SortMaxStrings }

\* (max_length + SYMBOLS_PER_WORD-1) / SYMBOLS_PER_WORD
RECURSIVE MaxLength(_)
MaxLength(set) ==
    IF set = <<>> THEN 0 ELSE Max(Len(Head(set)), MaxLength(Tail(set)))

WordsOf(set) == (MaxLength(set) + SortSymbolsPerWord - 1) \div SortSymbolsPerWord

\* suffixes.flatten: the word_idx-th radix word of a suffix, its symbols in
\* the high bits and the distance to its dollar in the low DOLLAR_BITS
RECURSIVE WordSymbols(_, _, _)
WordSymbols(txt, first, j) ==
    IF j > SortSymbolsPerWord THEN 0
    ELSE (IF first + j <= Len(txt) THEN txt[first + j] ELSE 0)
            * Pow2(SortWordBits - 2 * j)
         + WordSymbols(txt, first, j + 1)

RadixWord(set, sf, word_idx) ==
    LET txt == SuffixText(set, sf)
        rest == Len(txt) - word_idx * SortSymbolsPerWord
    IN  WordSymbols(txt, word_idx * SortSymbolsPerWord, 1)
        + (IF rest <= 0 THEN 0
           ELSE IF rest <= SortSymbolsPerWord THEN rest
           ELSE DOLLAR_MASK)

RECURSIVE Flattened(_, _, _)
Flattened(set, word_idx, idx) ==
    IF idx = <<>> THEN <<>>
    ELSE <<RadixWord(set, Head(idx), word_idx)>> \o Flattened(set, word_idx, Tail(idx))

\* a sort of the (key, value) pairs that reverses the pairs of equal key
MutSortPairs(keys, values) ==
    LET n == Len(keys)
        place(i) == Cardinality({ j \in 1..n : keys[j] < keys[i] })
                    + Cardinality({ j \in (i + 1)..n : keys[j] = keys[i] }) + 1
    IN  [p \in 1..n |-> values[CHOOSE i \in 1..n : place(i) = p]]

\* sort_enactor.sort: the (key, value) pairs in key order, pairs of equal
\* key in the order they had
SortPairs(keys, values) ==
    LET n == Len(keys)
        place(i) == Cardinality({ j \in 1..n : keys[j] < keys[i] })
                    + Cardinality({ j \in 1..(i - 1) : keys[j] = keys[i] }) + 1
    IN  [p \in 1..n |-> values[CHOOSE i \in 1..n : place(i) = p]]

\* the state when the loop is entered: indices = 0, 1, ..., n_suffixes-1,
\* the suffixes string by string
InitSort ==
    /\ symbol_size = 2
    /\ \E set \in SortSets :
          sorter = [string_set |-> set,
                    m |-> WordsOf(set),
                    word_idx |-> WordsOf(set) - 1,
                    indices |-> ChunkSuffixes(set, 0, Len(set)),
                    selector |-> 0,
                    output |-> <<>>,
                    pc |-> "loop"]
    /\ ssa_handler = <<>>
    /\ bwt_params = <<>>
    /\ qgroup = <<>>
    /\ tree = <<>>
    /\ IdleString
    /\ IdleSet
    /\ IdleSink

\* one iteration of the loop: flatten, then sort
SortPass ==
    /\ sorter # <<>>
    /\ sorter.pc = "loop"
    /\ sorter.word_idx >= 0
    /\ \E radices \in {Flattened(sorter.string_set, sorter.word_idx, sorter.indices)} :
          sorter' = [sorter EXCEPT !.indices = SortPairs(radices, @),
                                   !.selector = 1 - @,
                                   !.word_idx = @ - 1]
    /\ UNCHANGED <<symbol_size, stringVars, setVars, sinkVars, ssa_handler, bwt_params, qgroup, tree>>

\* output.process( n_suffixes, indices + selector * n_suffixes, ... )
SortOutput ==
    /\ sorter # <<>>
    /\ sorter.pc = "loop"
    /\ sorter.word_idx < 0
    /\ sorter' = [sorter EXCEPT !.output = sorter.indices, !.pc = "done"]
    /\ UNCHANGED <<symbol_size, stringVars, setVars, sinkVars, ssa_handler, bwt_params, qgroup, tree>>

NextSort == SortPass \/ SortOutput

SpecSort == InitSort /\ [][NextSort]_vars

(***************************************************************************)
(* The capacities enact computes from a BWTParams.  A uint64 is written as *)
(* four 16-bit digits, least significant first, a uint32 as two.           *)
(***************************************************************************)
Base == Pow2(16)

\* 128u*1024u*1024u = 2^27
Reserve64 == <<0, Pow2(11), 0, 0>>

\* the BWTParams explored: 0, values around 128MB, 2GB, 32GB, 32GB + 128MB,
\* 128GB, and values up to the top of the uint64 range
HostSamples == [1..4 -> {0, 8, Pow2(11), Base - 1}]
DeviceSamples == { <<0, 0, 0, 0>>, <<0, Pow2(15), 0, 0>>, <<Base - 1, Base - 1, 31, 0>>,
                   <<0, 0, 32, 0>>, <<Base - 1, Base - 1, Base - 1, Base - 1>> }

\* a - b on uint64: the digits of the difference from digit i on, modulo 2^64
RECURSIVE SubDigits(_, _, _, _)
SubDigits(a, b, i, borrow) ==
    IF i > 4 THEN <<>>
    ELSE LET d == a[i] - b[i] - borrow
         IN  <<d % Base>> \o SubDigits(a, b, i + 1, IF d < 0 THEN 1 ELSE 0)

Sub64(a, b) == SubDigits(a, b, 1, 0)

\* a / 2^k on uint64, k < 16
Shr64(a, k) ==
    [i \in 1..4 |-> (a[i] \div Pow2(k))
                     + (IF i < 4 THEN (a[i + 1] % Pow2(k)) * Pow2(16 - k) ELSE 0)]

\* the value kept when a uint64 is stored in a uint32
Trunc32(a) == <<a[1], a[2]>>

\* a < b on uint64
RECURSIVE Less64From(_, _, _)
Less64From(a, b, i) ==
    IF i < 1 THEN FALSE
    ELSE IF a[i] # b[i] THEN a[i] < b[i]
    ELSE Less64From(a, b, i - 1)

Less64(a, b) == Less64From(a, b, 4)

InitParams ==
    /\ symbol_size = 2
    /\ \E h \in HostSamples, d \in DeviceSamples :
          bwt_params = [host_memory |-> h,
                        device_memory |-> d,
                        max_super_block_size |-> <<>>,
                        max_block_size |-> <<>>,
                        pc |-> "entry"]
    /\ ssa_handler = <<>>
    /\ sorter = <<>>
    /\ qgroup = <<>>
    /\ tree = <<>>
    /\ IdleString
    /\ IdleSet
    /\ IdleSink

\* const uint32 max_super_block_size = (params->host_memory - (128u*1024u*1024u)) / 8u;
\* uint32 max_block_size = params->device_memory / 32;
ComputeCapacities ==
    /\ bwt_params # <<>>
    /\ bwt_params.pc = "entry"
    /\ bwt_params' = [bwt_params EXCEPT
                         !.max_super_block_size =
                             Trunc32(Shr64(Sub64(bwt_params.host_memory, Reserve64), 3)),
                         !.max_block_size = Trunc32(Shr64(bwt_params.device_memory, 5)),
                         !.pc = "computed"]
    /\ UNCHANGED <<symbol_size, stringVars, setVars, sinkVars, ssa_handler, sorter, qgroup, tree>>

NextParams == ComputeCapacities

SpecParams == InitParams /\ [][NextParams]_vars

(***************************************************************************)
(* QGroupIndexDevice::build of qgroup_inl.h: three thrust::for_each over   *)
(* the positions of the string, one functor invocation (thread) per        *)
(* position, separated by the exclusive scans.  A 32-bit word of I is      *)
(* written as the set of its bits that are 1.                              *)
(***************************************************************************)
\* longest string indexed, and largest q
MaxQLen == 3
MaxQ == 3
\* static const uint32 WORD_SIZE = 32 of the q-group functors
QWORD_SIZE == 32

\* string_qgram_functor: the q symbols from position p on, symbol j at bits
\* [j*SYMBOL_SIZE, (j+1)*SYMBOL_SIZE); positions past the end read as 0
RECURSIVE QGramFrom(_, _, _, _)
QGramFrom(T, q, p, j) ==
    IF j >= q THEN 0
    ELSE (IF p + j < Len(T) THEN T[p + j + 1] ELSE 0) * Pow2(j * symbol_size)
         + QGramFrom(T, q, p, j + 1)

qgram(p) == QGramFrom(qgroup.string, qgroup.Q, p, 0)

\* n_qgrams = ALPHABET_SIZE^q; n_qblocks = uint32( n_qgrams / WORD_SIZE )
n_qblocks(q) == Pow2(q * symbol_size) \div QWORD_SIZE

QThreads == 0..(Len(qgroup.string) - 1)

\* popc( I[i] & ((2u << j) - 1u) ): (2u << j) - 1u has the bits 0..j set,
\* for j = 31 too, where 2u << 31 is 0 and 0 - 1u is all ones
j_prime(I, i, j) == Cardinality({ b \in I[i] : b <= j })

\* cuda::exclusive_scan with plus and 0 over f[0..n-1]
RECURSIVE ScanTo(_, _)
ScanTo(f, k) == IF k = 0 THEN 0 ELSE ScanTo(f, k - 1) + f[k - 1]

Unassigned == -1

InitQGroup ==
    /\ symbol_size = 2
    /\ \E len \in 0..MaxQLen, q \in 1..MaxQ :
         \E T \in [1..len -> 0..(Pow2(symbol_size) - 1)] :
            qgroup = [string |-> T,
                      Q |-> q,
                      \* fill I with zeros
                      I |-> [i \in 0..n_qblocks(q) |-> {}],
                      S |-> <<>>,
                      n_unique_qgrams |-> 0,
                      SS |-> <<>>,
                      slots |-> <<>>,
                      P |-> <<>>,
                      phase |-> "setup_I",
                      tpc |-> [p \in 0..(len - 1) |-> "ready"],
                      reg |-> [p \in 0..(len - 1) |-> {}],
                      \* history: an access outside SS, slots or P has happened
                      out_of_range |-> FALSE]
    /\ ssa_handler = <<>>
    /\ sorter = <<>>
    /\ bwt_params = <<>>
    /\ tree = <<>>
    /\ IdleString
    /\ IdleSet
    /\ IdleSink

\* I[ qgram(p) ] = 1u, first half: the functor loads the word of the bit.
\* The store of one bit of a packed stream of words is a load of the word
\* and a store of the word with the bit set, and no atomic operation
\* protects the two
SetupILoad ==
    /\ qgroup # <<>>
    /\ qgroup.phase = "setup_I"
    /\ \E p \in QThreads :
          /\ qgroup.tpc[p] = "ready"
          /\ qgroup' = [qgroup EXCEPT !.reg[p] = qgroup.I[qgram(p) \div QWORD_SIZE],
                                      !.tpc[p] = "loaded"]
    /\ UNCHANGED <<symbol_size, stringVars, setVars, sinkVars, ssa_handler, sorter,
                   bwt_params, tree>>

\* I[ qgram(p) ] = 1u, second half: the word is stored with the bit set
SetupIStore ==
    /\ qgroup # <<>>
    /\ qgroup.phase = "setup_I"
    /\ \E p \in QThreads :
          /\ qgroup.tpc[p] = "loaded"
          /\ qgroup' = [qgroup EXCEPT
                           !.I[qgram(p) \div QWORD_SIZE] =
                               qgroup.reg[p] \cup {qgram(p) % QWORD_SIZE},
                           !.tpc[p] = "done"]
    /\ UNCHANGED <<symbol_size, stringVars, setVars, sinkVars, ssa_handler, sorter,
                   bwt_params, tree>>

AllDone == \A p \in QThreads : qgroup.tpc[p] = "done"

\* "compute the exclusive prefix sum of the popcount of the words in I",
\* n_unique_qgrams = S[n_qblocks], SS resized and filled with zeros
SetupS ==
    /\ qgroup # <<>>
    /\ qgroup.phase = "setup_I"
    /\ AllDone
    /\ LET nb == n_qblocks(qgroup.Q)
           popc == [i \in 0..nb |-> Cardinality(qgroup.I[i])]
           S == [i \in 0..nb |-> ScanTo(popc, i)]
       IN  qgroup' = [qgroup EXCEPT
                         !.S = S,
                         !.n_unique_qgrams = S[nb],
                         !.SS = [k \in 0..S[nb] |-> 0],
                         !.phase = "setup_SS",
                         !.tpc = [p \in QThreads |-> "ready"],
                         !.reg = [p \in QThreads |-> Unassigned]]
    /\ UNCHANGED <<symbol_size, stringVars, setVars, sinkVars, ssa_handler, sorter,
                   bwt_params, tree>>

\* the cell of SS a q-gram counts into: S[i] + j_prime
Cell(g) ==
    qgroup.S[g \div QWORD_SIZE] + j_prime(qgroup.I, g \div QWORD_SIZE, g % QWORD_SIZE)

\* qgroup_setup_SS: atomicAdd( SS + S[i] + j_prime, 1u )
SetupSS ==
    /\ qgroup # <<>>
    /\ qgroup.phase = "setup_SS"
    /\ \E p \in QThreads :
          /\ qgroup.tpc[p] = "ready"
          /\ qgroup' = [qgroup EXCEPT
                           !.SS = IF Cell(qgram(p)) \in DOMAIN @
                                  THEN [@ EXCEPT ![Cell(qgram(p))] = @ + 1] ELSE @,
                           !.out_of_range = @ \/ Cell(qgram(p)) \notin DOMAIN qgroup.SS,
                           !.tpc[p] = "done"]
    /\ UNCHANGED <<symbol_size, stringVars, setVars, sinkVars, ssa_handler, sorter,
                   bwt_params, tree>>

\* "compute the exclusive prefix sum of SS", P.resize( string_len ),
\* "copy SS into a temporary vector for the purpose of slot allocation"
ScanSS ==
    /\ qgroup # <<>>
    /\ qgroup.phase = "setup_SS"
    /\ AllDone
    /\ LET SS == [k \in 0..qgroup.n_unique_qgrams |-> ScanTo(qgroup.SS, k)]
       IN  qgroup' = [qgroup EXCEPT
                         !.SS = SS,
                         !.slots = SS,
                         !.P = [k \in QThreads |-> Unassigned],
                         !.phase = "setup_P",
                         !.tpc = [p \in QThreads |-> "ready"]]
    /\ UNCHANGED <<symbol_size, stringVars, setVars, sinkVars, ssa_handler, sorter,
                   bwt_params, tree>>

\* qgroup_setup_P: const uint32 slot = atomicAdd( SS + S[i] + j_prime, 1u );
\* an atomicAdd past the end of slots returns whatever the memory holds
SetupPAlloc ==
    /\ qgroup # <<>>
    /\ qgroup.phase = "setup_P"
    /\ \E p \in QThreads :
          /\ qgroup.tpc[p] = "ready"
          /\ IF Cell(qgram(p)) \in DOMAIN qgroup.slots
             THEN qgroup' = [qgroup EXCEPT !.reg[p] = qgroup.slots[Cell(qgram(p))],
                                           !.slots[Cell(qgram(p))] = @ + 1,
                                           !.tpc[p] = "alloc"]
             ELSE \E slot \in 0..Len(qgroup.string) :
                     qgroup' = [qgroup EXCEPT !.reg[p] = slot,
                                              !.out_of_range = TRUE,
                                              !.tpc[p] = "alloc"]
    /\ UNCHANGED <<symbol_size, stringVars, setVars, sinkVars, ssa_handler, sorter,
                   bwt_params, tree>>

\* qgroup_setup_P: P[ slot ] = p
SetupPStore ==
    /\ qgroup # <<>>
    /\ qgroup.phase = "setup_P"
    /\ \E p \in QThreads :
          /\ qgroup.tpc[p] = "alloc"
          /\ qgroup' = [qgroup EXCEPT
                           !.P = IF qgroup.reg[p] \in DOMAIN @
                                 THEN [@ EXCEPT ![qgroup.reg[p]] = p] ELSE @,
                           !.out_of_range = @ \/ qgroup.reg[p] \notin DOMAIN qgroup.P,
                           !.tpc[p] = "done"]
    /\ UNCHANGED <<symbol_size, stringVars, setVars, sinkVars, ssa_handler, sorter,
                   bwt_params, tree>>

\* the last for_each has completed and build returns
BuildReturn ==
    /\ qgroup # <<>>
    /\ qgroup.phase = "setup_P"
    /\ AllDone
    /\ qgroup' = [qgroup EXCEPT !.phase = "built"]
    /\ UNCHANGED <<symbol_size, stringVars, setVars, sinkVars, ssa_handler, sorter,
                   bwt_params, tree>>

NextQGroup ==
    \/ SetupILoad
    \/ SetupIStore
    \/ SetupS
    \/ SetupSS
    \/ ScanSS
    \/ SetupPAlloc
    \/ SetupPStore
    \/ BuildReturn

SpecQGroup == InitQGroup /\ [][NextQGroup]_vars

(***************************************************************************)
(* SumTree of sum_tree_inl.h: the leaves in m_cells[0, m_padded_size), the *)
(* level above them in the next m_padded_size / 2 cells, and so on up to   *)
(* the root in cell 2 * m_padded_size - 2.                                 *)
(***************************************************************************)
\* largest number of leaves, and most add / set calls on one tree
MaxTreeSize == 4
MaxTreeOps == 2

\* nvbio::log2 of an unsigned integer: the position of its highest bit
RECURSIVE Log2(_)
Log2(n) == IF n <= 1 THEN 0 ELSE 1 + Log2(n \div 2)

\* (1u << log2( size )) < size ? 1u << (log2( size )+1u) : 1u << log2( size )
PaddedSize(size) ==
    IF Pow2(Log2(size)) < size THEN Pow2(Log2(size) + 1) ELSE Pow2(Log2(size))

node_count(size) == PaddedSize(size) * 2 - 1

\* what the cells handed to the constructor may hold where the caller wrote
\* no leaf, and the values of the leaves and of the updates
Garbage == {0, 3}
TreeValues == {0, 1}

\* setup, the levels above the first:
\* for (uint32 n = m_padded_size/2; n >= 2; n >>= 1)
RECURSIVE SetupLevels(_, _, _)
SetupLevels(cells, src, n) ==
    IF n < 2 THEN cells
    ELSE LET dst == src + n
             m == n \div 2
         IN  SetupLevels([k \in DOMAIN cells |->
                             IF k >= dst /\ k < dst + m
                             THEN cells[src + (k - dst) * 2] + cells[src + (k - dst) * 2 + 1]
                             ELSE cells[k]],
                         src + n, n \div 2)

\* setup(zero)
SumTree_setup(t, zero) ==
    LET dst == t.m_padded_size
        m == t.m_padded_size \div 2
        first == [k \in DOMAIN t.m_cells |->
                     IF k >= dst /\ k < dst + m
                     THEN LET i == k - dst
                          IN  (IF i * 2 < t.m_size THEN t.m_cells[i * 2] ELSE zero)
                              + (IF i * 2 + 1 < t.m_size THEN t.m_cells[i * 2 + 1] ELSE zero)
                     ELSE t.m_cells[k]]
    IN  SetupLevels(first, t.m_padded_size, t.m_padded_size \div 2)

\* add: for (uint32 m = m_padded_size; m >= 2; m >>= 1, j >>= 1)
RECURSIVE AddLoop(_, _, _, _, _)
AddLoop(cells, dst, j, m, v) ==
    IF m < 2 THEN cells
    ELSE AddLoop([cells EXCEPT ![dst + j] = @ + v], dst + m, j \div 2, m \div 2, v)

SumTree_add(t, i, v) == AddLoop(t.m_cells, 0, i, t.m_padded_size, v)

\* set: for (uint32 m = m_padded_size >> 1; m >= 2; m >>= 1, parent >>= 1)
RECURSIVE SetLoop(_, _, _, _, _)
SetLoop(cells, prev_base, parent_base, parent, m) ==
    IF m < 2 THEN cells
    ELSE SetLoop([cells EXCEPT ![parent_base + parent] =
                                   cells[prev_base + parent * 2]
                                   + cells[prev_base + parent * 2 + 1]],
                 parent_base, parent_base + m, parent \div 2, m \div 2)

SumTree_set(t, i, v) ==
    SetLoop([t.m_cells EXCEPT ![i] = v], 0, t.m_padded_size, i \div 2,
            t.m_padded_size \div 2)

\* SumTree( size, cells ) over cells in which the caller has written the
\* size leaves
InitTree ==
    /\ symbol_size = 2
    /\ \E size \in 1..MaxTreeSize, g \in Garbage :
         \E lv \in [0..(size - 1) -> TreeValues] :
            tree = [m_size |-> size,
                    m_padded_size |-> PaddedSize(size),
                    m_cells |-> [k \in 0..(node_count(size) - 1) |->
                                    IF k < size THEN lv[k] ELSE g],
                    \* history: the value each leaf has been given, and the
                    \* calls made
                    leaves |-> lv,
                    ops |-> 0,
                    pc |-> "constructed"]
    /\ ssa_handler = <<>>
    /\ sorter = <<>>
    /\ bwt_params = <<>>
    /\ qgroup = <<>>
    /\ IdleString
    /\ IdleSet
    /\ IdleSink

TreeSetup ==
    /\ tree # <<>>
    /\ tree.pc = "constructed"
    /\ tree' = [tree EXCEPT !.m_cells = SumTree_setup(tree, 0), !.pc = "setup"]
    /\ UNCHANGED <<symbol_size, stringVars, setVars, sinkVars, ssa_handler, sorter,
                   bwt_params, qgroup>>

TreeAdd ==
    /\ tree # <<>>
    /\ tree.pc = "setup"
    /\ tree.ops < MaxTreeOps
    /\ \E i \in 0..(tree.m_size - 1), v \in TreeValues \ {0} :
          tree' = [tree EXCEPT !.m_cells = SumTree_add(tree, i, v),
                               !.leaves[i] = @ + v,
                               !.ops = @ + 1]
    /\ UNCHANGED <<symbol_size, stringVars, setVars, sinkVars, ssa_handler, sorter,
                   bwt_params, qgroup>>

TreeSet ==
    /\ tree # <<>>
    /\ tree.pc = "setup"
    /\ tree.ops < MaxTreeOps
    /\ \E i \in 0..(tree.m_size - 1), v \in TreeValues :
          tree' = [tree EXCEPT !.m_cells = SumTree_set(tree, i, v),
                               !.leaves[i] = v,
                               !.ops = @ + 1]
    /\ UNCHANGED <<symbol_size, stringVars, setVars, sinkVars, ssa_handler, sorter,
                   bwt_params, qgroup>>

NextTree ==
    \/ TreeSetup
    \/ TreeAdd
    \/ TreeSet

SpecTree == InitTree /\ [][NextTree]_vars

(***************************************************************************)
(* Claims about the single-string bwt().                                   *)
(***************************************************************************)
\* the BWT of T$ by a naive sort of all the suffixes 0..N of T$; the dollar
\* is written -1, a value no symbol has
NaiveBWT(T) ==
    LET S == 0..Len(T)
    IN  [k \in 1..(Len(T) + 1) |->
            LET p == CHOOSE i \in S : RankIn(T, S, i) = k - 1
            IN  IF p = 0 THEN -1 ELSE T[p]]

\* the N output symbols with a dollar re-inserted at position P
ReinsertDollar(P) ==
    [k \in 1..(string_len + 1) |->
        IF k - 1 < P THEN output[k - 1].sym
        ELSE IF k - 1 = P THEN -1
        ELSE output[k - 2].sym]

\* C1: for every text of length N >= 1 over a 2-, 4- or 8-bit alphabet, when
\* bwt() has returned, re-inserting a dollar at the returned primary into the
\* N output symbols gives the BWT of T$ computed by a naive suffix sort.
C1_BwtMatchesNaive ==
    (spc = "done" /\ string_len >= 1) =>
        /\ ret \in 0..string_len
        /\ ReinsertDollar(ret) = NaiveBWT(string)

\* C2: for every text of length N >= 1, when bwt() has returned, positions
\* 0..N-1 of the output each hold a symbol, none of them is the dollar marker,
\* and the returned primary is in [0,N].
C2_LengthAndPrimaryRange ==
    (spc = "done" /\ string_len >= 1) =>
        /\ \A i \in 0..(string_len - 1) :
              output[i] # Unwritten /\ ~output[i].dollar
        /\ ret \in 0..string_len

\* C3: on the empty string bwt() reads no symbol of the text, writes no
\* output position and, when it returns, returns primary 0.
C3_EmptyString ==
    string_len = 0 =>
        /\ ~oob_read
        /\ output[0] = Unwritten
        /\ (spc = "done" => ret = 0)

\* the slot of suffix 0 among the sorted suffixes 0..N-1
Slot0 == RankIn(string, 0..(string_len - 1), 0)

\* C19: in a single-string job over a 2-, 4- or 8-bit alphabet the primary
\* field is assigned by no call but the process_batch or process_scattered
\* call whose block contains suffix 0, only while it is still unassigned,
\* and once assigned it is never overwritten.
C19_PrimaryAssignedOnce ==
    [][ primary' # primary =>
          /\ primary = NULL_PRIMARY
          /\ \/ Slot0 \in n_output..(n_output' - 1)
             \/ Slot0 \in delayed \ delayed' ]_vars

\* C20: for a text of length N >= 1 the primary bwt() returns is the value
\* of find_primary: one plus the number of suffixes in [1,N) smaller than
\* suffix 0.
C20_FindPrimaryMatchesBwt ==
    (spc = "done" /\ string_len >= 1) => ret = find_primary(string)


\* the output before the dollar is removed: the last symbol of the text,
\* then the BWT symbol of every sorted suffix
PreRemoval ==
    LET sa == SortedSuffixes(string)
    IN  [p \in 0..string_len |->
            IF p = 0 THEN [sym |-> string[string_len], dollar |-> FALSE]
            ELSE string_bwt_functor(string, sa[p])]

\* C22: for every primary in [1,N], while and after the chunked shift
\* removes the dollar, output[i] is unchanged for i < primary, equals the
\* pre-removal output[i+1] for every i in [primary,N) a chunk has covered,
\* and is still the pre-removal output[i] beyond: no chunk reads a position
\* an earlier chunk overwrote, and the end result is a one-shot left shift.
C22_DollarRemoval ==
    (spc \in {"shift", "done"} /\ string_len >= 1 /\ primary \in 1..string_len) =>
        LET pre == PreRemoval
        IN  \A i \in 0..string_len :
               output[i] = (IF i < primary THEN pre[i]
                            ELSE IF i < Min(block_begin, string_len) THEN pre[i + 1]
                            ELSE pre[i])

\* a removal that took several chunks and moved symbols
C22_Witness ==
    /\ spc = "done"
    /\ primary \in 1..string_len
    /\ string_len - primary > RemoveBlockSize
    /\ \E i \in primary..(string_len - 1) : output[i] # PreRemoval[i]
    /\ \A i \in primary..(string_len - 1) : output[i] = PreRemoval[i + 1]

(***************************************************************************)
(* Claims about the sampled suffix array.                                  *)
(***************************************************************************)
\* entry s of the suffix array of T$: the empty suffix first, written
\* uint32(-1), then the suffixes 0..N-1 in order
SuffixArrayEntry(T, s) == IF s = 0 THEN NULL_PRIMARY ELSE SortedSuffixes(T)[s]

\* all the sorted suffixes have been delivered and resolved
SSADone ==
    /\ ssa_handler # <<>>
    /\ ssa_handler.n_output = Len(ssa_handler.string) + 1
    /\ ssa_handler.delayed = {}

\* C21: for every sampling interval mod >= 1 and every sequence of
\* process_batch and process_scattered calls delivering the sorted suffixes,
\* at the end output[k] is entry k*mod of the suffix array of T$ for every k
\* with k*mod <= N, and no slot that is not a multiple of mod is ever stored.
C21_SampledSuffixArray ==
    ssa_handler # <<>> =>
        LET h == ssa_handler
        IN  /\ \A s \in h.stored : s % h.mod = 0
            /\ SSADone =>
                  \A k \in 0..(Len(h.string) \div h.mod) :
                     h.output[k] = SuffixArrayEntry(h.string, k * h.mod)

(***************************************************************************)
(* Claims about suffix_sort( string_set ).                                 *)
(***************************************************************************)
\* the radix words w, w+1, ..., m-1 of suffix a are lexicographically no
\* larger than those of suffix b
RECURSIVE WordsLeq(_, _, _, _, _)
WordsLeq(set, a, b, w, m) ==
    IF w >= m THEN TRUE
    ELSE LET ka == RadixWord(set, a, w)
             kb == RadixWord(set, b, w)
         IN  IF ka # kb THEN ka < kb ELSE WordsLeq(set, a, b, w + 1, m)

\* C23: after every pass of the loop of suffix_sort the index list is a
\* permutation of all the suffixes sorted by the radix words the passes have
\* covered so far; after the last pass (word 0) it is sorted by the full
\* sequence of m radix words, and that list is what the handler receives.
C23_RadixPassesSort ==
    sorter # <<>> =>
        LET set == sorter.string_set
            idx == sorter.indices
            all == ChunkSuffixes(set, 0, Len(set))
        IN  /\ Len(idx) = Len(all)
            /\ \A i \in 1..Len(all) : \E p \in 1..Len(idx) : idx[p] = all[i]
            /\ \A p \in 1..(Len(idx) - 1) :
                  WordsLeq(set, idx[p], idx[p + 1], sorter.word_idx + 1, sorter.m)
            /\ sorter.pc = "done" =>
                  /\ sorter.output = idx
                  /\ \A p \in 1..(Len(idx) - 1) :
                        WordsLeq(set, idx[p], idx[p + 1], 0, sorter.m)

\* a finished sort of several passes in which a later pass kept the order an
\* earlier pass gave to two suffixes with the same word 0
C23_Witness ==
    /\ sorter # <<>>
    /\ sorter.pc = "done"
    /\ sorter.m >= 2
    /\ \E p \in 1..(Len(sorter.output) - 1) :
          /\ RadixWord(sorter.string_set, sorter.output[p], 0)
                = RadixWord(sorter.string_set, sorter.output[p + 1], 0)
          /\ RadixWord(sorter.string_set, sorter.output[p], 1)
                < RadixWord(sorter.string_set, sorter.output[p + 1], 1)


(***************************************************************************)
(* Claims about bwt( string_set ) and large_bwt( string_set ).             *)
(***************************************************************************)
RECURSIVE Flatten(_)
Flatten(batches) ==
    IF batches = <<>> THEN <<>> ELSE Head(batches) \o Flatten(Tail(batches))

\* every symbol the output handler received, in the order received
SinkSymbols == Flatten(sink)

RECURSIVE TotalLength(_)
TotalLength(set) ==
    IF set = <<>> THEN 0 ELSE Len(Head(set)) + TotalLength(Tail(set))

\* the (position, string_id) pairs of the whole strings in a stream
RECURSIVE PrimaryMapOf(_, _)
PrimaryMapOf(q, pos) ==
    IF q = <<>> THEN <<>>
    ELSE (IF Head(q).off = 0
          THEN <<[position |-> pos, string_id |-> Head(q).sid, sym |-> Head(q).sym]>>
          ELSE <<>>)
         \o PrimaryMapOf(Tail(q), pos + 1)

PrimaryMap == PrimaryMapOf(SinkSymbols, 0)

\* what a run that needs no escalation hands over: the last symbol of every
\* string, then the symbol before every suffix in lexicographic order,
\* equal suffixes by string
RefStream(set) ==
    LET all == ChunkSuffixes(set, 0, Len(set))
        pre == DollarBwt(set, 0, Len(set))
        srt == SortSuffixes(set, all)
    IN  [i \in 1..Len(set) |-> pre[i].sym]
        \o [i \in 1..Len(all) |-> SetBwtSymbol(set, srt[i]).sym]

SymbolsOf(q) == [i \in 1..Len(q) |-> q[i].sym]

Last(q) == q[Len(q)]

\* C4: a successful run of the string-set bwt hands the output handler
\* exactly sum(|s_i|) + m symbols over all its process() calls, whatever the
\* memory budgets.
C4_TotalSymbols ==
    pc = "done" => Len(SinkSymbols) = TotalLength(string_set) + N

\* C5: in a successful run exactly m of the suffixes handed over are whole
\* strings (offset 0, symbol = the dollar token), one for every string id in
\* [0,m), and listed in emission order their positions strictly increase.
C5_PrimaryMap ==
    pc = "done" =>
        LET pm == PrimaryMap
        IN  /\ Len(pm) = N
            /\ \A k \in 0..(N - 1) :
                  Cardinality({ i \in 1..Len(pm) : pm[i].string_id = k }) = 1
            /\ \A i \in 1..Len(pm) : pm[i].sym = DOLLAR
            /\ \A i \in 1..(Len(pm) - 1) : pm[i].position < pm[i + 1].position

\* a successful run that escalated once and whose second string sorts first
C5_Witness ==
    /\ pc = "done"
    /\ N = 2
    /\ Len(attempts) = 2
    /\ Len(PrimaryMap) = 2
    /\ PrimaryMap[1].string_id = 1

\* C7: when the 16-bit attempt fails with LargeBucket and a wider attempt
\* succeeds, the symbols the handler received over the whole call are those
\* of a run that needs no escalation; the failed attempt contributes none.
C7_EscalationTransparent ==
    (pc = "done" /\ Len(attempts) > 1 /\ attempts[1].status.code = "LargeBucket")
        => SymbolsOf(SinkSymbols) = RefStream(string_set)

\* C8: the widths are tried in the order 16, 20, 24, a wider attempt starts
\* only after the previous one returned LargeBucket, the call returns as soon
\* as an attempt returns OK, and an error is raised exactly when all three
\* attempts returned LargeBucket, with the bucket index and size of the
\* 24-bit attempt.
C8_EscalationProtocol ==
    /\ \A i \in 1..Len(attempts) : attempts[i].bits = Widths[i]
    /\ \A i \in 1..(Len(attempts) - 1) : attempts[i].status.code = "LargeBucket"
    /\ pc = "done" <=> (attempts # <<>> /\ Last(attempts).status.code = "OK")
    /\ pc = "error" <=>
          /\ Len(attempts) = Len(Widths)
          /\ \A i \in 1..Len(attempts) : attempts[i].status.code = "LargeBucket"
    /\ (pc = "error" /\ attempts # <<>>) =>
          /\ error.bucket_index = Last(attempts).status.bucket_index
          /\ error.bucket_size = Last(attempts).status.bucket_size

\* C9: a memory-budget failure met at width 16 or 20 is recovered by trying
\* the next width: no exception and no exit reaches the caller before the
\* 24-bit attempt has run.
C9_BudgetFailuresRecovered ==
    pc = "error" => bits = Widths[Len(Widths)]

\* the states in which the running attempt has counted and checked its buckets
Scanned == pc \in {"super", "collect", "sub", "direct", "return", "done", "error"}

LargestOf(hb, S) ==
    IF S = {} THEN 0 ELSE LET k == CHOOSE k \in S : \A o \in S : hb[k] >= hb[o] IN hb[k]

\* C10 (as stated): an attempt reports LargeBucket, with that bucket's index
\* and size, exactly when the largest bucket of the histogram holds more than
\* device_memory/32 suffixes.
C10_LargeBucketIffLargestBucket ==
    Scanned =>
        LET hb == frame.h_buckets
            largest == LargestOf(hb, DOMAIN hb)
        IN  /\ status.code = "LargeBucket" <=> largest > device_memory \div 32
            /\ status.code = "LargeBucket" =>
                  /\ status.bucket_size = largest
                  /\ BucketSize(hb, status.bucket_index) = largest

\* C10 (amended): an attempt whose histogram has a bucket above the host
\* super-block capacity ends in a runtime_error; otherwise it reports
\* LargeBucket exactly when the largest long-string bucket (index with all
\* DOLLAR_BITS low bits set) holds more than device_memory/32 suffixes, with
\* the size and the index of the first such largest bucket; short-string
\* buckets never cause it.
C10_LargeBucketIffLongBucket ==
    Scanned =>
        LET hb == frame.h_buckets
            longs == { k \in DOMAIN hb : k % 16 = 15 }
            largest == LargestOf(hb, longs)
            overflow == \E k \in DOMAIN hb : hb[k] > (host_memory - HostReserve) \div 8
        IN  /\ overflow <=> (pc = "error" /\ error.kind = "runtime_error")
            /\ overflow => status.code = "OK"
            /\ ~overflow => (status.code = "LargeBucket" <=> largest > device_memory \div 32)
            /\ status.code = "LargeBucket" =>
                  /\ status.bucket_size = largest
                  /\ status.bucket_index \in longs
                  /\ hb[status.bucket_index] = largest
                  /\ \A k \in longs : hb[k] = largest => status.bucket_index <= k

\* an attempt has just reported a long-string bucket one suffix above the
\* device block capacity
C10_Witness ==
    /\ pc = "return"
    /\ status.code = "LargeBucket"
    /\ status.bucket_size = device_memory \div 32 + 1
    /\ frame.h_buckets[status.bucket_index] = status.bucket_size


\* the suffixes handed to the output handler: the entries that carry a suffix
SuffixEntries == SelectSeq(SinkSymbols, LAMBDA e : e.sid >= 0)

EntryBucket(e) == BucketOf(string_set, bits, [sid |-> e.sid, off |-> e.off])

\* C11 (as stated): the suffixes of a short-string bucket (low DOLLAR_BITS
\* field of the index not all ones) are never passed to string_sorter.sort,
\* whatever the size of the bucket; they are emitted directly.
C11_ShortBucketsNeverSorted ==
    LET q == SuffixEntries
    IN  \A i \in 1..Len(q) : q[i].indices => EntryBucket(q[i]) % 16 = 15

\* C11 (amended): a suffix is emitted directly, without string_sorter.sort,
\* exactly when it lies in a short-string bucket that holds more suffixes
\* than the block capacity max_block_size in effect; the suffixes of a
\* short-string bucket that fits are sorted in a sub-block like all others.
C11_DirectIffOversizedShortBucket ==
    LET q == SuffixEntries
    IN  \A i \in 1..Len(q) :
           LET k == EntryBucket(q[i])
           IN  ~q[i].indices <=>
                  (k % 16 # 15 /\ frame.h_buckets[k] > frame.max_block_size)

\* a finished run that emitted a short-string bucket directly and passed
\* another short-string bucket to the sorter
C11_Witness ==
    LET q == SuffixEntries
    IN  /\ pc = "done"
        /\ \E i \in 1..Len(q) : ~q[i].indices
        /\ \E i \in 1..Len(q) : q[i].indices /\ EntryBucket(q[i]) % 16 # 15


\* C12: every sub-block enact hands to the block sorter and every block it
\* copies to the device holds at most device_memory/32 suffixes.
C12_BlocksFitDevice ==
    \A i \in 1..Len(sink) : Len(sink[i]) <= device_memory \div 32


\* the suffixes counted in the buckets [lo, hi)
RangeCount(hb, lo, hi) == SumOver(hb, { k \in DOMAIN hb : k >= lo /\ k < hi })

\* C13: the super-blocks enact walks are contiguous, disjoint bucket ranges
\* [b_lo,b_hi) in ascending order that cover every bucket exactly once; each
\* holds at most max_super_block_size suffixes and is maximal: it ends with
\* the last bucket or the next bucket would not fit.
C13_SuperBlockEnumeration ==
    frame # <<>> =>
        LET w == frame.super_blocks
            hb == frame.h_buckets
            cap == (host_memory - HostReserve) \div 8
        IN  /\ \A i \in 1..Len(w) :
                  /\ w[i].lo < w[i].hi
                  /\ w[i].lo = (IF i = 1 THEN 0 ELSE w[i - 1].hi)
                  /\ w[i].hi <= Pow2(bits)
                  /\ RangeCount(hb, w[i].lo, w[i].hi) <= cap
                  /\ \/ w[i].hi = Pow2(bits)
                     \/ RangeCount(hb, w[i].lo, w[i].hi + 1) > cap
            /\ (pc \in {"return", "done"} /\ status.code = "OK") =>
                  (IF w = <<>> THEN Pow2(bits) = 0 ELSE w[Len(w)].hi = Pow2(bits))

\* a successful run that walked two super-blocks
C13_Witness ==
    /\ pc = "done"
    /\ Len(frame.super_blocks) = 2
    /\ frame.super_blocks[2].hi = Pow2(bits)


RECURSIVE ReverseMerge(_)
ReverseMerge(c) ==
    IF c >= n_chunks THEN [k \in BucketsOf(string_set, bits) |-> 0]
    ELSE LET rest == ReverseMerge(c + 1)
             h == ChunkHistogram(string_set, bits, c * M, Min(c * M + M, N))
         IN  [k \in DOMAIN rest |-> rest[k] + h[k]]

\* C15: after the counting pass the global histogram sums to total_suffixes,
\* the number of suffixes counted; every global bucket is the sum of that
\* bucket over the per-chunk histograms, in whichever order they are merged.
C15_HistogramSums ==
    (frame # <<>> /\ pc # "dollar" /\ ~(pc = "count" /\ frame.chunk_id < n_chunks)) =>
        LET hb == frame.h_buckets
        IN  /\ SumOver(hb, DOMAIN hb) = frame.total_suffixes
            /\ frame.total_suffixes = TotalLength(string_set)
            /\ hb = ReverseMerge(0)
            /\ hb = ChunkHistogram(string_set, bits, 0, N)

\* the counting pass over two chunks is over and a bucket got suffixes from
\* both
C15_Witness ==
    /\ pc = "count"
    /\ n_chunks = 2
    /\ frame.chunk_id = n_chunks
    /\ \E k \in DOMAIN frame.h_buckets :
          /\ ChunkHistogram(string_set, bits, 0, M)[k] > 0
          /\ ChunkHistogram(string_set, bits, M, N)[k] > 0


\* C16: the first m symbols handed to the output handler are the last symbols
\* of the strings 0..m-1 in string order, whatever the block size that chunks
\* them, and all of them are handed over before any symbol of a bucket.
C16_PerStringPrefix ==
    LET q == SinkSymbols
        last(k) == string_set[k][Len(string_set[k])]
        buckets == { i \in 1..Len(q) : q[i].sid >= 0 }
    IN  /\ \A i \in 1..Len(q) : i <= N => (q[i].sid = -1 /\ q[i].sym = last(i))
        /\ (pc \notin {"call", "dollar"} /\ Len(attempts) = 0) => Len(q) >= N
        /\ \A f \in buckets :
              /\ f > N
              /\ (f - 1 \notin buckets) =>
                    /\ \A k \in 1..N : LET e == q[f - 1 - N + k]
                                       IN  e.sid = -1 /\ e.sym = last(k)
                    /\ \A i \in f..Len(q) : i \in buckets

\* the prefix of a set of two strings went out in two blocks, and the first
\* bucket symbols after it
C16_Witness ==
    /\ N = 2
    /\ Len(sink) >= 3
    /\ Len(sink[1]) = 1
    /\ Len(sink[2]) = 1
    /\ sink[1][1].sym # sink[2][1].sym
    /\ sink[3][1].sid >= 0


\* C26: the collecting passes returning what the counting pass counted, in
\* every super-block and at every chunk the running suffix_count is the number
\* of suffixes collected so far, at most the suffix count of the super-block
\* and so at most max_super_block_size; the "buffer size exceeded" exit is
\* never taken and every write to h_suffixes is inside the buffer.
C26_CollectFitsBuffer ==
    frame # <<>> =>
        /\ error # [kind |-> "exit", bits |-> bits, bucket_index |-> 0, bucket_size |-> 0]
        /\ ~frame.slot_out_of_range
        /\ DOMAIN frame.h_suffixes = 0..(max_super_block_size - 1)
        /\ pc = "collect" =>
              LET in_block == RangeCount(frame.h_buckets, frame.bucket_begin, frame.bucket_end)
              IN  /\ in_block <= max_super_block_size
                  /\ frame.suffix_count <= in_block
                  /\ frame.suffix_count =
                        Len(Collect(string_set, bits, 0, Min(frame.chunk_id * M, N),
                                    frame.bucket_begin, frame.bucket_end))
                  /\ frame.chunk_id = n_chunks => frame.suffix_count = in_block

\* a collecting pass over several chunks filled the host buffer to the brim
C26_Witness ==
    /\ pc = "collect"
    /\ n_chunks >= 2
    /\ frame.chunk_id = n_chunks
    /\ frame.suffix_count = max_super_block_size
    /\ frame.h_suffixes[max_super_block_size - 1] # NoSuffix

\* the counting pass of the attempt is over
Counted ==
    /\ frame # <<>>
    /\ pc # "dollar"
    /\ ~(pc = "count" /\ frame.chunk_id < n_chunks)

\* C24: once max_subbucket_size has returned with status OK for the
\* histogram, build_subbuckets, called with the adjusted max_block_size,
\* throws neither of its errors, no error is raised later in the attempt, and
\* no long-string bucket is larger than the block size the sub-block loop
\* works with.
C24_NoLateOverflow ==
    Counted =>
        LET hb == frame.h_buckets
            limit == device_memory \div 32
            r == max_subbucket_size(hb, n_buckets, max_super_block_size)
            mbs == ScratchpadSize(r.max_size, limit)
        IN  (~r.throw /\ StatusAfter(r, limit).code = "OK") =>
               /\ ~build_subbuckets_throws(hb, n_buckets, max_super_block_size, mbs, 0)
               /\ error = NoError
               /\ pc # "error"
               /\ pc \in {"super", "collect", "sub", "direct"} =>
                     /\ frame.max_block_size = mbs
                     /\ \A k \in DOMAIN hb :
                           IsLongStringBucket(k) => hb[k] <= frame.max_block_size

\* the sub-block loop met a bucket larger than a block and went on to emit
\* it, in an attempt whose block size was adjusted
C24_Witness ==
    /\ pc = "direct"
    /\ status.code = "OK"
    /\ error = NoError
    /\ frame.h_buckets[frame.subbucket_begin] > frame.max_block_size
    /\ frame.max_block_size # device_memory \div 32

\* the index of the loop that is about to run one more iteration, and the
\* amount that iteration adds to it
LoopStep ==
    IF pc = "dollar" /\ frame.block_begin < N
    THEN frame.max_block_size \div 4
    ELSE IF pc = "count" /\ frame.chunk_id < n_chunks THEN 1
    ELSE IF pc = "super" /\ frame.bucket_begin < n_buckets
    THEN GrowBlock(frame.h_buckets, frame.bucket_end, n_buckets, 0,
                   max_super_block_size).end - frame.bucket_begin
    ELSE IF pc = "collect" /\ frame.chunk_id < n_chunks THEN 1
    ELSE IF /\ pc = "sub"
            /\ frame.subbucket_begin < frame.bucket_end
            /\ BucketSize(frame.h_buckets, frame.subbucket_begin) <= frame.max_block_size
    THEN GrowBlock(frame.h_buckets, frame.subbucket_end, frame.bucket_end, 0,
                   frame.max_block_size).end - frame.subbucket_begin
    ELSE IF pc = "direct" /\ frame.block_begin < frame.h_buckets[frame.subbucket_begin]
    THEN frame.max_block_size
    ELSE 1

\* C28: termination of one enact attempt: for every string set, histogram and
\* BWTParams, every loop of enact (per-string symbol blocks, counting chunks,
\* super-blocks, collecting chunks, sub-blocks, blocks of an oversized
\* bucket) adds at least one to its index on each iteration, so the attempt
\* goes on to return a status or raise an error
C28_LoopsAdvance ==
    pc \in {"dollar", "count", "super", "collect", "sub", "direct"} => LoopStep >= 1

(***************************************************************************)
(* Claims about the string-set output handlers.                            *)
(***************************************************************************)
\* C17: after any sequence of process() calls of sizes n_1..n_k on a
\* DeviceBWTHandler or a generic HostBWTHandler, the j-th symbol of call i is
\* at output position n_1+...+n_(i-1)+j, the write cursor is n_1+...+n_k, and
\* no position written by an earlier call has been modified.
C17_AppendSemantics ==
    handler_kind \in {"device", "host"} =>
        LET out == IF handler_kind = "device" THEN handler.output ELSE handler.stream
            cursor == IF handler_kind = "device" THEN handler.offset ELSE handler.output
        IN  /\ cursor = Len(emitted)
            /\ \A p \in DOMAIN out :
                  out[p] = (IF p < Len(emitted) THEN emitted[p + 1] ELSE -1)

\* a host handler that received more symbols than one call can carry
C17_Witness ==
    /\ handler_kind = "host"
    /\ Len(emitted) > MaxBatch
    /\ handler.output = Len(emitted)
    /\ handler.stream[MaxBatch] = emitted[MaxBatch + 1]

\* the symbol a packed stream holds at position p
Decode(p) ==
    LET word == handler.words[p \div SYMBOLS_PER_WORD]
        bit_idx == (p % SYMBOLS_PER_WORD) * symbol_size
    IN  (word \div Pow2(SymbolOffset(handler.BIG_ENDIAN, bit_idx))) % Pow2(symbol_size)

\* C18: after any sequence of process() calls on a zeroed packed stream,
\* decoding the words at symbol position p (word p / SYMBOLS_PER_WORD, in-word
\* position by the endianness) gives the p-th symbol emitted, for every p
\* below the number of symbols emitted.
C18_PackedDecodes ==
    handler_kind = "packed" =>
        \A p \in 0..(Len(emitted) - 1) : Decode(p) = emitted[p + 1]

\* C25: whatever the offset and the number of symbols of a call, process()
\* on a packed stream reads h_bwt only below n_suffixes and writes only
\* words that hold a symbol position of [offset, offset + n_suffixes): no
\* read is out of range and, the stream starting zeroed, every word beyond
\* the symbols emitted so far is still zero.
C25_PackedMemorySafety ==
    handler_kind = "packed" =>
        /\ ~handler.oob_read
        /\ \A w \in DOMAIN handler.words :
              w * SYMBOLS_PER_WORD >= handler.offset => handler.words[w] = 0

(***************************************************************************)
(* Claims about the capacities of enact.                                   *)
(***************************************************************************)
\* a uint32 as the number it stands for, written with four digits
Widen(a) == <<a[1], a[2], 0, 0>>

\* C27: for every BWTParams the capacities enact works with are the exact
\* values floor((host_memory - 128MB) / 8) and floor(device_memory / 32): the
\* subtraction does not wrap around (host_memory is at least 128MB) and the
\* quotients stored in 32 bits are the whole quotients.
C27_ExactCapacities ==
    (bwt_params # <<>> /\ bwt_params.pc = "computed") =>
        /\ ~Less64(bwt_params.host_memory, Reserve64)
        /\ Widen(bwt_params.max_super_block_size)
              = Shr64(Sub64(bwt_params.host_memory, Reserve64), 3)
        /\ Widen(bwt_params.max_block_size) = Shr64(bwt_params.device_memory, 5)


(***************************************************************************)
(* Claims about QGroupIndexDevice::build.                                  *)
(***************************************************************************)
\* the slots handed out so far by the atomicAdd of qgroup_setup_P
Allocated == { p \in QThreads : qgroup.tpc[p] \in {"alloc", "done"} }

\* C29: QGroupIndexDevice::build: for every interleaving of the functor
\* invocations (bit sets into I, atomicAdd counts into SS, atomicAdd slot
\* allocation into P) no two positions ever receive the same slot, every
\* access stays inside its vector, and the final P is a permutation of [0, string_len) in which the positions sharing
\* a q-gram occupy one contiguous range and the ranges appear in increasing
\* q-gram order
C29_GroupsContiguousInOrder ==
    /\ (qgroup # <<>> /\ qgroup.phase = "setup_P") =>
          \A p1 \in Allocated, p2 \in Allocated :
             p1 # p2 => qgroup.reg[p1] # qgroup.reg[p2]
    /\ (qgroup # <<>> /\ qgroup.phase = "built") =>
          /\ ~qgroup.out_of_range
          /\ { qgroup.P[k] : k \in QThreads } = QThreads
          /\ \A k1 \in QThreads, k2 \in QThreads :
                k1 < k2 => qgram(qgroup.P[k1]) <= qgram(qgroup.P[k2])

(***************************************************************************)
(* Claims about SumTree.                                                   *)
(***************************************************************************)
\* the first cell of level l (the leaves are level 0) and the value of node
\* k of level l, a leaf at or past m_size counting as zero
RECURSIVE LevelBase(_)
LevelBase(l) == IF l = 0 THEN 0 ELSE LevelBase(l - 1) + tree.m_padded_size \div Pow2(l - 1)

NodeValue(l, k) ==
    IF l = 0 /\ k >= tree.m_size THEN 0 ELSE tree.m_cells[LevelBase(l) + k]

\* C30: SumTree: after setup(zero) and after any sequence of add(i, v) and
\* set(i, v) with i < size, for every size >= 1, leaf i holds the value
\* implied by the operations and every internal node of every level, up to
\* and including the root cell, holds the sum of its two children, the
\* leaves at index >= size counting as zero
C30_NodesAreSums ==
    (tree # <<>> /\ tree.pc = "setup") =>
        /\ \A i \in 0..(tree.m_size - 1) : tree.m_cells[i] = tree.leaves[i]
        /\ \A l \in 1..Log2(tree.m_padded_size) :
              \A k \in 0..(tree.m_padded_size \div Pow2(l) - 1) :
                 NodeValue(l, k) = NodeValue(l - 1, 2 * k) + NodeValue(l - 1, 2 * k + 1)

=========================================================================
